---- MODULE Spec2Model ----
(***************************************************************************)
(* Model of the prow configuration loader, pkg/prow/apiv1/config.go:       *)
(* Load = loadConfig ; finalizeJobConfig ; validateComponentConfig ;       *)
(* validateJobConfig, with the panic containment of Load.  Load runs as a  *)
(* sequence of phases, each a part of one of its four stages.              *)
(*                                                                         *)
(* Text is a sequence of one-character strings, so that formatting         *)
(* (fmt.Sprintf, strings.Join, strings.Split) and regular-expression       *)
(* matching are computed and not assumed.  A pointer or an optional value  *)
(* is a sequence of length 0 (nil) or 1.  A Go map is a function on the    *)
(* set of its keys.                                                        *)
(***************************************************************************)
EXTENDS Integers, Sequences, FiniteSets, TLC

(***************************************************************************)
(* Bounds of the model.                                                    *)
(***************************************************************************)
\* longest job list (per repository, or periodics) drawn as input
MaxJobs == 2
\* longest branch name of the universe Brancher.Intersects quantifies over
MaxBranchLen == 2
MaxPresets == 2
MaxNameLen == 2

(***************************************************************************)
(* Text helpers.                                                           *)
(***************************************************************************)
Range(s) == {s[i] : i \in 1..Len(s)}

\* all sequences over S of length lo..hi
SeqsOf(S, lo, hi) == UNION {[1..n -> S] : n \in lo..hi}

\* the text of a short literal, character by character
Tslash == <<"/">>
Ttest == <<"/", "t", "e", "s", "t">>
Tstar == <<"*">>

\* strings.Split(s, "/")[0]: the text before the first "/"
RECURSIVE BeforeSlash(_)
BeforeSlash(s) ==
    IF s = <<>> \/ Head(s) = "/" THEN <<>>
    ELSE <<Head(s)>> \o BeforeSlash(Tail(s))

\* strings.Join(list, sep)
RECURSIVE Join(_, _)
Join(list, sep) ==
    IF list = <<>> THEN <<>>
    ELSE IF Len(list) = 1 THEN list[1]
    ELSE list[1] \o sep \o Join(Tail(list), sep)

\* Regular expressions (Go's regexp, RE2 syntax), for the fragment of the
\* syntax that the patterns of this model use.  A pattern is a sequence of
\* tokens: a literal character, or one of MetaTokens:
\*   the flag m      ^ and $ also match at line breaks
\*   ^ and $         begin / end of text (or of a line)
\*   dot             any character but a line break
\*   dot star        any run of such characters
\*   comma ?         an optional comma
\*   the group of DefaultTriggerFor before the name:
\*                   a blank, or a blank, anything, a blank
\*   the group of DefaultTriggerFor after the name:
\*                   end of text (line), or a white space and anything
\*   |               alternation, binding weakest
\*   (               an unclosed group: the pattern does not compile
MetaTokens == {"(?m)", "^", "$", ".", ".*", ",?", "( | .* )", "($|\\s.*)", "|", "("}
WhiteSpace == {" ", "\n", "\t"}

\* regexp.Compile succeeds
Compiles(pat) == "(" \notin Range(pat)

\* the alternatives of a pattern: the token runs between the "|" tokens
RECURSIVE Alternatives(_)
Alternatives(pat) ==
    IF \A i \in 1..Len(pat) : pat[i] # "|" THEN <<pat>>
    ELSE LET k == CHOOSE i \in 1..Len(pat) :
                      pat[i] = "|" /\ \A j \in 1..(i - 1) : pat[j] # "|"
         IN <<SubSeq(pat, 1, k - 1)>> \o Alternatives(SubSeq(pat, k + 1, Len(pat)))

NoBreak(s, i, j) == \A k \in (i + 1)..j : s[k] # "\n"
AtBegin(s, i, multi) == i = 0 \/ (multi /\ s[i] = "\n")
AtEnd(s, i, multi) == i = Len(s) \/ (multi /\ s[i + 1] = "\n")

\* the positions where token tok, started at position i of s (i characters
\* consumed), can end
TokenEnds(tok, s, i, multi) ==
    CASE tok = "(?m)" -> {i}
      [] tok = "^" -> IF AtBegin(s, i, multi) THEN {i} ELSE {}
      [] tok = "$" -> IF AtEnd(s, i, multi) THEN {i} ELSE {}
      [] tok = "." -> IF i < Len(s) /\ s[i + 1] # "\n" THEN {i + 1} ELSE {}
      [] tok = ".*" -> {j \in i..Len(s) : NoBreak(s, i, j)}
      [] tok = ",?" -> {i} \cup (IF i < Len(s) /\ s[i + 1] = "," THEN {i + 1} ELSE {})
      [] tok = "( | .* )" ->
            IF i < Len(s) /\ s[i + 1] = " "
            THEN {i + 1} \cup {j \in (i + 2)..Len(s) : s[j] = " " /\ NoBreak(s, i + 1, j - 1)}
            ELSE {}
      [] tok = "($|\\s.*)" ->
            (IF AtEnd(s, i, multi) THEN {i} ELSE {})
            \cup (IF i < Len(s) /\ s[i + 1] \in WhiteSpace
                  THEN {j \in (i + 1)..Len(s) : NoBreak(s, i + 1, j)} ELSE {})
      [] OTHER -> IF i < Len(s) /\ s[i + 1] = tok THEN {i + 1} ELSE {}

\* the positions where the token run alt, started at any position of P, can end
RECURSIVE RunEnds(_, _, _, _)
RunEnds(alt, s, P, multi) ==
    IF alt = <<>> \/ P = {} THEN P
    ELSE RunEnds(Tail(alt), s,
                 UNION {TokenEnds(Head(alt), s, i, multi) : i \in P}, multi)

\* (*regexp.Regexp).MatchString: some substring of s matches the pattern
MatchString(pat, s) ==
    LET multi == "(?m)" \in Range(pat)
    IN \E a \in Range(Alternatives(pat)) : RunEnds(a, s, 0..Len(s), multi) # {}


\* time.ParseDuration, for unsigned whole numbers with the units h, m, s:
\* "0", or one or more groups of digits followed by a unit
Digits == {"0", "1", "2", "3", "4", "5", "6", "7", "8", "9"}
DurationUnits == {"h", "m", "s"}
RECURSIVE DurationGroups(_, _)
DurationGroups(s, seenDigit) ==
    IF s = <<>> THEN FALSE
    ELSE IF Head(s) \in Digits THEN DurationGroups(Tail(s), TRUE)
    ELSE IF Head(s) \in DurationUnits /\ seenDigit
         THEN Tail(s) = <<>> \/ DurationGroups(Tail(s), FALSE)
    ELSE FALSE
ParseDurationOk(s) == s = <<"0">> \/ DurationGroups(s, FALSE)

\* url.Parse fails on a malformed percent escape; the URLs of this model are
\* atoms, "%zz" the malformed one
UrlParseOk(u) == u # "%zz"

\* validation.IsQualifiedName / IsValidLabelValue (k8s.io/apimachinery) on the
\* atoms this model uses for label keys and values: a name must be non-empty
\* and begin with an alphanumeric character
QualifiedNameOk(k) == k \notin {"", "-key"}
LabelValueOk(v) == v # "-value"

(***************************************************************************)
(* Errors.  An error is the kind of its message, the job the message names *)
(* and the prefix a caller wrapped it in.                                  *)
(***************************************************************************)
NoJob == <<>>
NoErr == [kind |-> "", job |-> NoJob, wrap |-> ""]
Err(kind, job) == [kind |-> kind, job |-> job, wrap |-> ""]
IsErr(e) == e.kind # ""
\* fmt.Errorf("<prefix> ...: %v", err)
Wrap(prefix, e) == [e EXCEPT !.wrap = prefix]

\* the first error of a sequence of results, NoErr if there is none
RECURSIVE FirstErr(_)
FirstErr(es) ==
    IF es = <<>> THEN NoErr
    ELSE IF IsErr(Head(es)) THEN Head(es) ELSE FirstErr(Tail(es))

(***************************************************************************)
(* Data model.                                                             *)
(***************************************************************************)
\* agents (ProwJobAgent)
KubernetesAgent == "kubernetes"
KnativeBuildAgent == "knative-build"
JenkinsAgent == "jenkins"
TektonAgent == "tekton"

\* optional values
Nil == <<>>
Some(x) == <<x>>
IsNil(p) == p = <<>>
Deref(p) == p[1]

\* a Go map lookup: the value and whether the key is present
Has(m, k) == k \in DOMAIN m
EmptyMap == <<>>

\* DecorationConfig: each field is 0 (unset) or a value
DCFields == {"Timeout", "GracePeriod", "UtilityImages"}
DCRequired == {"UtilityImages"}

\* (*DecorationConfig).ApplyDefault: a field set on the receiver wins,
\* otherwise the default's value is taken; nil stands for "nothing set"
ApplyDefault(d, def) ==
    IF IsNil(d) /\ IsNil(def) THEN Nil
    ELSE IF IsNil(d) THEN def
    ELSE IF IsNil(def) THEN d
    ELSE Some([f \in DCFields |->
                  IF Deref(d)[f] # 0 THEN Deref(d)[f] ELSE Deref(def)[f]])

\* (*DecorationConfig).Validate: the required fields are set
DecorationValidate(d) ==
    IF \A f \in DCRequired : Deref(d)[f] # 0 THEN NoErr
    ELSE Err("decoration config is incomplete", NoJob)

\* the lookup that hands out the entry it finds as it is, not completed from
\* the '*' entry
GetDefaultDecorationConfigsNoMerge(p, repo) ==
    LET m == p.DefaultDecorationConfigs
        def == IF Has(m, Tstar) THEN m[Tstar] ELSE Nil
        org == BeforeSlash(repo)
    IN IF Has(m, repo) THEN m[repo]
       ELSE IF Has(m, org) THEN m[org]
       ELSE def

\* the lookup with the organization tried before the repository
GetDefaultDecorationConfigsRepoLast(p, repo) ==
    LET m == p.DefaultDecorationConfigs
        def == IF Has(m, Tstar) THEN m[Tstar] ELSE Nil
        org == BeforeSlash(repo)
    IN IF Has(m, org) THEN ApplyDefault(m[org], def)
       ELSE IF Has(m, repo) THEN ApplyDefault(m[repo], def)
       ELSE def

\* Plank.GetDefaultDecorationConfigs
GetDefaultDecorationConfigs(p, repo) ==
    LET m == p.DefaultDecorationConfigs
        def == IF Has(m, Tstar) THEN m[Tstar] ELSE Nil
        org == BeforeSlash(repo)
    IN IF Has(m, repo) THEN ApplyDefault(m[repo], def)
       ELSE IF Has(m, org) THEN ApplyDefault(m[org], def)
       ELSE def

\* the answer with the '*' entry asked first
InRepoConfigEnabledBroadFirst(c, identifier) ==
    LET enabled == c.InRepoConfig.Enabled
        set(k) == Has(enabled, k) /\ ~IsNil(enabled[k])
        split == Cardinality({i \in 1..Len(identifier) : identifier[i] = "/"}) + 1
    IN IF ~IsNil(c.FakeInRepoConfig) THEN TRUE
       ELSE IF set(Tstar) THEN Deref(enabled[Tstar])
       ELSE IF split = 2 /\ set(BeforeSlash(identifier))
       THEN Deref(enabled[BeforeSlash(identifier)])
       ELSE IF set(identifier) THEN Deref(enabled[identifier])
       ELSE FALSE

\* Config.InRepoConfigEnabled: Enabled maps a key to a pointer to a boolean,
\* and an entry with a nil pointer counts for none; split is the number of
\* parts strings.Split(identifier, "/") gives
InRepoConfigEnabled(c, identifier) ==
    LET enabled == c.InRepoConfig.Enabled
        set(k) == Has(enabled, k) /\ ~IsNil(enabled[k])
        split == Cardinality({i \in 1..Len(identifier) : identifier[i] = "/"}) + 1
    IN IF ~IsNil(c.FakeInRepoConfig) THEN TRUE
       ELSE IF set(identifier) THEN Deref(enabled[identifier])
       ELSE IF split = 2 /\ set(BeforeSlash(identifier))
       THEN Deref(enabled[BeforeSlash(identifier)])
       ELSE IF set(Tstar) THEN Deref(enabled[Tstar])
       ELSE FALSE

(***************************************************************************)
(* Jobs.  A job record holds the JobBase and UtilityConfig fields and the  *)
(* fields of its kind:                                                     *)
(*   Name, Context, Trigger, RerunCommand, Cron, Interval : text           *)
(*   Agent, Cluster : atoms; Namespace : optional atom                     *)
(*   Labels : map; Spec : optional PodSpec                                 *)
(*   Decorate, DecorationConfig, ExtraRefs : UtilityConfig                 *)
(*   Brancher : [Branches, SkipBranches, re, reSkip]                       *)
(*   re, reChanges, interval : what compilation / parsing caches           *)
(***************************************************************************)
\* jobNameRegex, ^[A-Za-z0-9-._]+$
JobNameChars ==
    {"a", "b", "c", "x", "y", "z", "A", "Z", "-", ".", "_"} \cup Digits
jobNameRegexMatch(name) == Len(name) > 0 /\ Range(name) \subseteq JobNameChars

\* a trigger that wants the comma after the name
DefaultTriggerForWithComma(name) ==
    <<"(?m)", "^">> \o Ttest \o <<"( | .* )">> \o name \o <<",", "($|\\s.*)">>

\* DefaultTriggerFor: fmt.Sprintf(`(?m)^/test( | .* )%s,?($|\s.*)`, name)
DefaultTriggerFor(name) ==
    <<"(?m)", "^">> \o Ttest \o <<"( | .* )">> \o name \o <<",?", "($|\\s.*)">>

\* DefaultRerunCommandFor: fmt.Sprintf("/test %s", name)
DefaultRerunCommandFor(name) == Ttest \o <<" ">> \o name

\* ProwConfig.defaultJobBase
\* a defaulting that leaves an empty namespace as it is
defaultJobBaseKeepsEmptyNamespace(c, base) ==
    [base EXCEPT
       !.Agent = IF @ = "" THEN KubernetesAgent ELSE @,
       !.Namespace = IF IsNil(@) THEN Some(c.PodNamespace) ELSE @,
       !.Cluster = IF @ = "" THEN "default" ELSE @]

\* a defaulting that sets the agent whether or not the job names one
defaultJobBaseAnyAgent(c, base) ==
    [base EXCEPT
       !.Agent = KubernetesAgent,
       !.Namespace = IF IsNil(@) \/ @ = Some("") THEN Some(c.PodNamespace) ELSE @,
       !.Cluster = IF @ = "" THEN "default" ELSE @]

\* a defaulting that takes two passes over a namespace: unset to empty, empty
\* to the pod namespace
defaultJobBaseTwoPasses(c, base) ==
    [base EXCEPT
       !.Agent = IF @ = "" THEN KubernetesAgent ELSE @,
       !.Namespace = IF IsNil(@) THEN Some("")
                     ELSE IF @ = Some("") THEN Some(c.PodNamespace) ELSE @,
       !.Cluster = IF @ = "" THEN "default" ELSE @]

defaultJobBase(c, base) ==
    [base EXCEPT
       !.Agent = IF @ = "" THEN KubernetesAgent ELSE @,
       !.Namespace = IF IsNil(@) \/ @ = Some("") THEN Some(c.PodNamespace) ELSE @,
       !.Cluster = IF @ = "" THEN "default" ELSE @]

\* the defaulting with each of the two fields filled in when it alone is unset
defaultPresubmitFieldEither(c, j) ==
    LET b == defaultJobBase(c, j)
        d == [b EXCEPT !.Context = IF @ = <<>> THEN b.Name ELSE @]
    IN [d EXCEPT !.Trigger = IF @ = <<>> THEN DefaultTriggerFor(d.Name) ELSE @,
                 !.RerunCommand = IF @ = <<>> THEN DefaultRerunCommandFor(d.Name) ELSE @]

\* one element of ProwConfig.defaultPresubmitFields
defaultPresubmitField(c, j) ==
    LET b == defaultJobBase(c, j)
        d == [b EXCEPT !.Context = IF @ = <<>> THEN b.Name ELSE @]
    IN IF d.Trigger = <<>> /\ d.RerunCommand = <<>>
       THEN [d EXCEPT !.Trigger = DefaultTriggerFor(d.Name),
                      !.RerunCommand = DefaultRerunCommandFor(d.Name)]
       ELSE d

\* ProwConfig.defaultPresubmitFields
defaultPresubmitFields(c, js) == [i \in 1..Len(js) |-> defaultPresubmitField(c, js[i])]

\* ProwConfig.defaultPostsubmitFields
defaultPostsubmitFields(c, js) ==
    [i \in 1..Len(js) |->
        LET b == defaultJobBase(c, js[i])
        IN [b EXCEPT !.Context = IF @ = <<>> THEN b.Name ELSE @]]

\* ProwConfig.defaultPeriodicFields
defaultPeriodicFields(c, js) == [i \in 1..Len(js) |-> defaultJobBase(c, js[i])]

\* setBrancherRegexes compiling the first inclusion pattern alone
setBrancherRegexesFirstOnly(br) ==
    LET neg == Join(br.SkipBranches, <<"|">>)
        b1 == IF Len(br.Branches) > 0 /\ Compiles(br.Branches[1])
              THEN [br EXCEPT !.re = Some(br.Branches[1])] ELSE br
        b2 == IF Len(br.SkipBranches) > 0 /\ Compiles(neg)
              THEN [b1 EXCEPT !.reSkip = Some(neg)] ELSE b1
    IN IF Len(br.Branches) > 0 /\ ~Compiles(br.Branches[1])
       THEN [br |-> br, err |-> Err("could not compile positive branch regex", NoJob)]
       ELSE IF Len(br.SkipBranches) > 0 /\ ~Compiles(neg)
       THEN [br |-> b1, err |-> Err("could not compile negative branch regex", NoJob)]
       ELSE [br |-> b2, err |-> NoErr]

\* setBrancherRegexes: the compiled Brancher and the error
setBrancherRegexes(br) ==
    LET pos == Join(br.Branches, <<"|">>)
        neg == Join(br.SkipBranches, <<"|">>)
        b1 == IF Len(br.Branches) > 0 /\ Compiles(pos)
              THEN [br EXCEPT !.re = Some(pos)] ELSE br
        b2 == IF Len(br.SkipBranches) > 0 /\ Compiles(neg)
              THEN [b1 EXCEPT !.reSkip = Some(neg)] ELSE b1
    IN IF Len(br.Branches) > 0 /\ ~Compiles(pos)
       THEN [br |-> br, err |-> Err("could not compile positive branch regex", NoJob)]
       ELSE IF Len(br.SkipBranches) > 0 /\ ~Compiles(neg)
       THEN [br |-> b1, err |-> Err("could not compile negative branch regex", NoJob)]
       ELSE [br |-> b2, err |-> NoErr]

\* setChangeRegexes: the matcher and the error
setChangeRegexes(j) ==
    IF j.RunIfChanged # <<>>
    THEN IF Compiles(j.RunIfChanged)
         THEN [reChanges |-> Some(j.RunIfChanged), err |-> NoErr]
         ELSE [reChanges |-> j.reChanges,
               err |-> Err("could not compile run_if_changed regex", NoJob)]
    ELSE [reChanges |-> j.reChanges, err |-> NoErr]

\* the iteration without the match of the rerun command against the trigger
SetPresubmitRegexNoRerunCheck(j) ==
    LET j1 == [j EXCEPT !.re = Some(j.Trigger)]
        b == setBrancherRegexes(j.Brancher)
        j2 == [j1 EXCEPT !.Brancher = b.br]
        cm == setChangeRegexes(j)
    IN IF ~Compiles(j.Trigger)
       THEN [job |-> j, err |-> Err("could not compile trigger regex", j.Name)]
       ELSE IF IsErr(b.err)
       THEN [job |-> j1, err |-> Err("could not set branch regexes", j.Name)]
       ELSE IF IsErr(cm.err)
       THEN [job |-> j2, err |-> Err("could not set change regexes", j.Name)]
       ELSE [job |-> [j2 EXCEPT !.reChanges = cm.reChanges], err |-> NoErr]

\* one iteration of the loop of SetPresubmitRegexes: the job as it is left and
\* the error that ends the loop, if any
SetPresubmitRegex(j) ==
    LET j1 == [j EXCEPT !.re = Some(j.Trigger)]
        b == setBrancherRegexes(j.Brancher)
        j2 == [j1 EXCEPT !.Brancher = b.br]
        cm == setChangeRegexes(j)
    IN IF ~Compiles(j.Trigger)
       THEN [job |-> j, err |-> Err("could not compile trigger regex", j.Name)]
       ELSE IF ~MatchString(Deref(j1.re), j.RerunCommand)
       THEN [job |-> j1, err |-> Err("rerun command does not match trigger", j.Name)]
       ELSE IF IsErr(b.err)
       THEN [job |-> j1, err |-> Err("could not set branch regexes", j.Name)]
       ELSE IF IsErr(cm.err)
       THEN [job |-> j2, err |-> Err("could not set change regexes", j.Name)]
       ELSE [job |-> [j2 EXCEPT !.reChanges = cm.reChanges], err |-> NoErr]

\* one iteration of the loop of SetPostsubmitRegexes
SetPostsubmitRegex(j) ==
    LET b == setBrancherRegexes(j.Brancher)
        j1 == [j EXCEPT !.Brancher = b.br]
        cm == setChangeRegexes(j)
    IN IF IsErr(b.err)
       THEN [job |-> j, err |-> Err("could not set branch regexes", j.Name)]
       ELSE IF IsErr(cm.err)
       THEN [job |-> j1, err |-> Err("could not set change regexes", j.Name)]
       ELSE [job |-> [j1 EXCEPT !.reChanges = cm.reChanges], err |-> NoErr]

\* a loop over a job list that stops at the first error, results[i] being
\* what iteration i gives for entry i (the job as it is left, and the error):
\* the list as the loop leaves it, the jobs after the failing one untouched,
\* and the error
LoopUntilErr(js, results) ==
    LET bad == {i \in 1..Len(js) : IsErr(results[i].err)}
        first == CHOOSE i \in bad : \A k \in bad : i <= k
    IN IF bad = {} THEN [jobs |-> [i \in 1..Len(js) |-> results[i].job], err |-> NoErr]
       ELSE [jobs |-> [i \in 1..Len(js) |-> IF i <= first THEN results[i].job ELSE js[i]],
             err |-> results[first].err]

\* SetPresubmitRegexes
SetPresubmitRegexes(js) ==
    LoopUntilErr(js, [i \in 1..Len(js) |-> SetPresubmitRegex(js[i])])

\* SetPostsubmitRegexes
SetPostsubmitRegexes(js) ==
    LoopUntilErr(js, [i \in 1..Len(js) |-> SetPostsubmitRegex(js[i])])

(***************************************************************************)
(* Presets and decoration defaults.                                        *)
(***************************************************************************)
\* appending the entries of add whose name list does not hold yet
RECURSIVE AppendNew(_, _)
AppendNew(list, add) ==
    IF add = <<>> THEN list
    ELSE AppendNew(IF Head(add) \in Range(list) THEN list ELSE Append(list, Head(add)),
                   Tail(add))

\* mergePreset: when the job's labels hold every label:value pair of the
\* preset, its environment goes to every container and its volumes to the pod
mergePreset(preset, labels, spec) ==
    IF \A l \in DOMAIN preset.Labels : Has(labels, l) /\ labels[l] = preset.Labels[l]
    THEN [spec EXCEPT
            !.Containers = [i \in 1..Len(@) |->
                               [@[i] EXCEPT !.Env = AppendNew(@, preset.Env)]],
            !.Volumes = AppendNew(@, preset.Volumes)]
    ELSE spec

\* resolvePresets: the pod spec with every preset merged
RECURSIVE resolvePresets(_, _, _)
resolvePresets(labels, spec, presets) ==
    IF presets = <<>> \/ IsNil(spec) THEN spec
    ELSE resolvePresets(labels, Some(mergePreset(Head(presets), labels, Deref(spec))),
                        Tail(presets))

\* setPresubmitDecorationDefaults, setPostsubmitDecorationDefaults
\* the defaulting that gives a default only to a job with no decoration
\* configuration of its own
setPresubmitDecorationDefaultsUnlessOwn(c, ps, repo) ==
    IF ps.Decorate /\ IsNil(ps.DecorationConfig)
    THEN [ps EXCEPT !.DecorationConfig = GetDefaultDecorationConfigs(c.Plank, repo)]
    ELSE ps

setPresubmitDecorationDefaults(c, ps, repo) ==
    IF ps.Decorate
    THEN [ps EXCEPT !.DecorationConfig =
                        ApplyDefault(@, GetDefaultDecorationConfigs(c.Plank, repo))]
    ELSE ps

\* setPeriodicDecorationDefaults: the default of ExtraRefs[0]'s org/repo, of
\* the empty identifier without extra refs
setPeriodicDecorationDefaults(c, ps) ==
    IF ps.Decorate
    THEN LET orgRepo == IF Len(ps.ExtraRefs) > 0
                        THEN ps.ExtraRefs[1].Org \o Tslash \o ps.ExtraRefs[1].Repo
                        ELSE <<>>
         IN [ps EXCEPT !.DecorationConfig =
                           ApplyDefault(@, GetDefaultDecorationConfigs(c.Plank, orgRepo))]
    ELSE ps

\* the first loop of defaultPresubmits / defaultPostsubmits
DecorateAndPreset(c, jobs, repo) ==
    [i \in 1..Len(jobs) |->
        LET d == setPresubmitDecorationDefaults(c, jobs[i], repo)
        IN [d EXCEPT !.Spec = resolvePresets(d.Labels, @, c.Presets)]]

\* defaultPresubmits: the list as it is left and the error
defaultPresubmits(presubmits, c, repo) ==
    LET r == SetPresubmitRegexes(
                 defaultPresubmitFields(c, DecorateAndPreset(c, presubmits, repo)))
    IN [jobs |-> r.jobs,
        err |-> IF IsErr(r.err) THEN Wrap("could not set regex", r.err) ELSE NoErr]

\* defaultPostsubmits
defaultPostsubmits(postsubmits, c, repo) ==
    LET r == SetPostsubmitRegexes(
                 defaultPostsubmitFields(c, DecorateAndPreset(c, postsubmits, repo)))
    IN [jobs |-> r.jobs,
        err |-> IF IsErr(r.err) THEN Wrap("could not set regex", r.err) ELSE NoErr]

\* defaultPeriodics
defaultPeriodics(periodics, c) ==
    LET d == defaultPeriodicFields(c, periodics)
    IN [jobs |-> [i \in 1..Len(d) |->
                     [d[i] EXCEPT !.Spec = resolvePresets(d[i].Labels, @, c.Presets)]],
        err |-> NoErr]

\* decoration taken as requested whatever the jobs say
decorationRequestedAlways(c) == TRUE

\* JobConfig.decorationRequested
decorationRequested(c) ==
    \/ \E r \in DOMAIN c.Presubmits : \E i \in 1..Len(c.Presubmits[r]) :
           c.Presubmits[r][i].Decorate
    \/ \E r \in DOMAIN c.Postsubmits : \E i \in 1..Len(c.Postsubmits[r]) :
           c.Postsubmits[r][i].Decorate
    \/ \E i \in 1..Len(c.Periodics) : c.Periodics[i].Decorate

\* the decoration part without the checks of the '*' entry
finalizeDecorationNoWildcardCheck(c) ==
    LET legacy == c.Plank.DefaultDecorationConfig
        both == ~IsNil(legacy) /\ Cardinality(DOMAIN c.Plank.DefaultDecorationConfigs) > 0
        c1 == IF ~IsNil(legacy)
              THEN [c EXCEPT !.Plank.DefaultDecorationConfigs = (Tstar :> legacy)]
              ELSE c
    IN IF ~decorationRequested(c) THEN [c |-> c, err |-> NoErr]
       ELSE IF both
       THEN [c |-> c, err |-> Err("both default_decoration_config and default_decoration_configs are specified", NoJob)]
       ELSE [c |-> [c1 EXCEPT !.Periodics =
                        [i \in 1..Len(@) |-> setPeriodicDecorationDefaults(c1, @[i])]],
             err |-> NoErr]

\* the decoration part of Config.finalizeJobConfig, lines 834-862
finalizeDecoration(c) ==
    LET legacy == c.Plank.DefaultDecorationConfig
        both == ~IsNil(legacy) /\ Cardinality(DOMAIN c.Plank.DefaultDecorationConfigs) > 0
        c1 == IF ~IsNil(legacy)
              THEN [c EXCEPT !.Plank.DefaultDecorationConfigs = (Tstar :> legacy)]
              ELSE c
        m == c1.Plank.DefaultDecorationConfigs
    IN IF ~decorationRequested(c) THEN [c |-> c, err |-> NoErr]
       ELSE IF both
       THEN [c |-> c, err |-> Err("both default_decoration_config and default_decoration_configs are specified", NoJob)]
       ELSE IF Cardinality(DOMAIN m) = 0
       THEN [c |-> c1, err |-> Err("both default_decoration_config and default_decoration_configs['*'] are missing", NoJob)]
       ELSE IF ~Has(m, Tstar)
       THEN [c |-> c1, err |-> Err("default_decoration_configs['*'] is missing", NoJob)]
       ELSE IF IsErr(DecorationValidate(m[Tstar]))
       THEN [c |-> c1, err |-> Err("decoration config validation error", NoJob)]
       ELSE [c |-> [c1 EXCEPT !.Periodics =
                        [i \in 1..Len(@) |-> setPeriodicDecorationDefaults(c1, @[i])]],
             err |-> NoErr]

(***************************************************************************)
(* Validation.                                                             *)
(***************************************************************************)
KnownAgents == {KubernetesAgent, KnativeBuildAgent, JenkinsAgent, TektonAgent}

\* a validation of the agent that lets eviction errors through for any agent
validateAgentAnyEviction(v, podNamespace) ==
    LET k == KubernetesAgent
        b == KnativeBuildAgent
        p == TektonAgent
        agent == v.Agent
    IN IF agent \notin KnownAgents THEN NoErr
       ELSE IF ~IsNil(v.Spec) /\ agent # k THEN Err("job specs require agent", NoJob)
       ELSE IF agent = k /\ IsNil(v.Spec) THEN Err("kubernetes jobs require a spec", NoJob)
       ELSE IF ~IsNil(v.DecorationConfig) /\ agent # k /\ agent # b
       THEN Err("decoration requires agent", NoJob)
       ELSE IF IsNil(v.Namespace) \/ v.Namespace = Some("")
       THEN Err("failed to default namespace", NoJob)
       ELSE IF Deref(v.Namespace) # podNamespace /\ agent # b /\ agent # p
       THEN Err("namespace customization requires agent", NoJob)
       ELSE NoErr

\* a validation of the agent that holds an unknown agent to the rules as well
validateAgentUnknownToo(v, podNamespace) ==
    LET k == KubernetesAgent
        b == KnativeBuildAgent
        p == TektonAgent
        agent == v.Agent
    IN IF ~IsNil(v.Spec) /\ agent # k THEN Err("job specs require agent", NoJob)
       ELSE IF agent = k /\ IsNil(v.Spec) THEN Err("kubernetes jobs require a spec", NoJob)
       ELSE IF ~IsNil(v.DecorationConfig) /\ agent # k /\ agent # b
       THEN Err("decoration requires agent", NoJob)
       ELSE IF v.ErrorOnEviction /\ agent # k
       THEN Err("error_on_eviction only applies to agent", NoJob)
       ELSE IF IsNil(v.Namespace) \/ v.Namespace = Some("")
       THEN Err("failed to default namespace", NoJob)
       ELSE IF Deref(v.Namespace) # podNamespace /\ agent # b /\ agent # p
       THEN Err("namespace customization requires agent", NoJob)
       ELSE NoErr

\* validateAgent
validateAgent(v, podNamespace) ==
    LET k == KubernetesAgent
        b == KnativeBuildAgent
        p == TektonAgent
        agent == v.Agent
    IN IF agent \notin KnownAgents THEN NoErr
       ELSE IF ~IsNil(v.Spec) /\ agent # k THEN Err("job specs require agent", NoJob)
       ELSE IF agent = k /\ IsNil(v.Spec) THEN Err("kubernetes jobs require a spec", NoJob)
       ELSE IF ~IsNil(v.DecorationConfig) /\ agent # k /\ agent # b
       THEN Err("decoration requires agent", NoJob)
       ELSE IF v.ErrorOnEviction /\ agent # k
       THEN Err("error_on_eviction only applies to agent", NoJob)
       ELSE IF IsNil(v.Namespace) \/ v.Namespace = Some("")
       THEN Err("failed to default namespace", NoJob)
       ELSE IF Deref(v.Namespace) # podNamespace /\ agent # b /\ agent # p
       THEN Err("namespace customization requires agent", NoJob)
       ELSE NoErr

\* validatePodSpec
validatePodSpec(spec) ==
    IF IsNil(spec) THEN NoErr
    ELSE IF Len(Deref(spec).InitContainers) # 0
    THEN Err("pod spec may not use init containers", NoJob)
    ELSE IF Len(Deref(spec).Containers) # 1
    THEN Err("pod spec must specify exactly 1 container", NoJob)
    ELSE NoErr

\* validateLabels (a job of this model holds at most one label, so that the
\* order of the range over the map does not matter)
validateLabels(labels) ==
    IF \E l \in DOMAIN labels : ~QualifiedNameOk(l) THEN Err("invalid label", NoJob)
    ELSE IF \E l \in DOMAIN labels : ~LabelValueOk(labels[l])
    THEN Err("label has invalid value", NoJob)
    ELSE NoErr

\* validateDecoration
validateDecoration(container, config) ==
    LET args == container.Command \o container.Args
    IN IF IsNil(config) THEN NoErr
       ELSE IF IsErr(DecorationValidate(config)) THEN Err("invalid decoration config", NoJob)
       ELSE IF Len(args) = 0 \/ args[1] = ""
       THEN Err("decorated job containers must specify command and/or args", NoJob)
       ELSE NoErr

\* validateJobBase
validateJobBase(v, podNamespace) ==
    LET auth == v.RerunAuthConfig
    IN IF ~jobNameRegexMatch(v.Name) THEN Err("name: must match regex", NoJob)
       ELSE IF v.MaxConcurrency < 0
       THEN Err("max_concurrency: must be a non-negative number", NoJob)
       ELSE IF IsErr(validateAgent(v, podNamespace)) THEN validateAgent(v, podNamespace)
       ELSE IF IsErr(validatePodSpec(v.Spec)) THEN validatePodSpec(v.Spec)
       ELSE IF IsErr(validateLabels(v.Labels)) THEN validateLabels(v.Labels)
       ELSE IF IsNil(v.Spec) \/ Len(Deref(v.Spec).Containers) = 0 THEN NoErr
       ELSE IF /\ ~IsNil(auth)
               /\ Deref(auth).AllowAnyone
               /\ \/ Len(Deref(auth).GitHubUsers) > 0
                  \/ Len(Deref(auth).GitHubTeamIDs) > 0
                  \/ Len(Deref(auth).GitHubTeamSlugs) > 0
       THEN Err("allow anyone is set to true and permitted users or groups are specified", NoJob)
       ELSE validateDecoration(Deref(v.Spec).Containers[1], v.DecorationConfig)

\* validateTriggering
validateTriggering(job) ==
    IF job.AlwaysRun /\ job.RunIfChanged # <<>>
    THEN Err("always run but also declares run_if_changed", job.Name)
    ELSE IF ~job.SkipReport /\ job.Context = <<>>
    THEN Err("set to report but has no context configured", job.Name)
    ELSE IF \/ job.Trigger # <<>> /\ job.RerunCommand = <<>>
            \/ job.Trigger = <<>> /\ job.RerunCommand # <<>>
    THEN Err("Either both of job.Trigger and job.RerunCommand must be set", job.Name)
    ELSE NoErr

\* the branch names Brancher.Intersects is evaluated over
BranchChars == {"a", "b"}
BranchNames == SeqsOf(BranchChars, 1, MaxBranchLen)

\* Brancher.ShouldRun: the branch is included (or nothing is) and not excluded
ShouldRun(br, branch) ==
    /\ IsNil(br.re) \/ MatchString(Deref(br.re), branch)
    /\ IsNil(br.reSkip) \/ ~MatchString(Deref(br.reSkip), branch)

\* Brancher.Intersects: some branch name is matched by both
Intersects(p, q) == \E b \in BranchNames : ShouldRun(p, b) /\ ShouldRun(q, b)

\* the entries accepted before entry i that carry its name: validPresubmits[ps.Name]
EarlierSameName(js, i) == {k \in 1..(i - 1) : js[k].Name = js[i].Name}

\* the iteration without the test against the earlier entries of the name
validatePresubmitNoDupCheck(js, i, podNamespace) ==
    IF IsErr(validateJobBase(js[i], podNamespace))
    THEN Wrap("invalid presubmit job", [validateJobBase(js[i], podNamespace) EXCEPT !.job = js[i].Name])
    ELSE validateTriggering(js[i])

\* one iteration of the loop of validatePresubmits
validatePresubmit(js, i, podNamespace) ==
    IF \E k \in EarlierSameName(js, i) : Intersects(js[k].Brancher, js[i].Brancher)
    THEN Err("duplicated presubmit job", js[i].Name)
    ELSE IF IsErr(validateJobBase(js[i], podNamespace))
    THEN Wrap("invalid presubmit job", [validateJobBase(js[i], podNamespace) EXCEPT !.job = js[i].Name])
    ELSE validateTriggering(js[i])

\* validatePresubmits: the error of the first entry that fails
validatePresubmits(js, podNamespace) ==
    FirstErr([i \in 1..Len(js) |-> validatePresubmit(js, i, podNamespace)])

\* one iteration of the loop of validatePostsubmits
validatePostsubmit(js, i, podNamespace) ==
    IF \E k \in EarlierSameName(js, i) : Intersects(js[k].Brancher, js[i].Brancher)
    THEN Err("duplicated postsubmit job", js[i].Name)
    ELSE IF IsErr(validateJobBase(js[i], podNamespace))
    THEN Wrap("invalid postsubmit job", [validateJobBase(js[i], podNamespace) EXCEPT !.job = js[i].Name])
    ELSE NoErr

\* validatePostsubmits
validatePostsubmits(js, podNamespace) ==
    FirstErr([i \in 1..Len(js) |-> validatePostsubmit(js, i, podNamespace)])

\* the iteration without the test for a repeated name
validatePeriodicNoDupCheck(js, i, podNamespace) ==
    IF IsErr(validateJobBase(js[i], podNamespace))
    THEN Wrap("invalid periodic job", [validateJobBase(js[i], podNamespace) EXCEPT !.job = js[i].Name])
    ELSE NoErr

\* one iteration of the loop of validatePeriodics
validatePeriodic(js, i, podNamespace) ==
    IF EarlierSameName(js, i) # {} THEN Err("duplicated periodic job", js[i].Name)
    ELSE IF IsErr(validateJobBase(js[i], podNamespace))
    THEN Wrap("invalid periodic job", [validateJobBase(js[i], podNamespace) EXCEPT !.job = js[i].Name])
    ELSE NoErr

\* validatePeriodics
validatePeriodics(js, podNamespace) ==
    FirstErr([i \in 1..Len(js) |-> validatePeriodic(js, i, podNamespace)])

\* the iteration with a cron that is set silencing the interval
setIntervalCronWins(p) ==
    IF p.Cron = <<>> /\ p.Interval = <<>>
    THEN [job |-> p, err |-> Err("cron and interval cannot be both empty", p.Name)]
    ELSE IF p.Cron # <<>> THEN [job |-> p, err |-> NoErr]
    ELSE IF ~ParseDurationOk(p.Interval)
    THEN [job |-> p, err |-> Err("cannot parse duration", p.Name)]
    ELSE [job |-> [p EXCEPT !.interval = Some(p.Interval)], err |-> NoErr]

\* one iteration of the schedule loop of Config.validateJobConfig, lines
\* 1015-1028: the periodic as it is left and the error
setInterval(p) ==
    IF p.Cron # <<>> /\ p.Interval # <<>>
    THEN [job |-> p, err |-> Err("cron and interval cannot be both set", p.Name)]
    ELSE IF p.Cron = <<>> /\ p.Interval = <<>>
    THEN [job |-> p, err |-> Err("cron and interval cannot be both empty", p.Name)]
    ELSE IF p.Cron # <<>> THEN [job |-> p, err |-> NoErr]
    ELSE IF ~ParseDurationOk(p.Interval)
    THEN [job |-> p, err |-> Err("cannot parse duration", p.Name)]
    ELSE [job |-> [p EXCEPT !.interval = Some(p.Interval)], err |-> NoErr]

\* Config.validateComponentConfig (the job-URL prefixes of this model hold at
\* most one malformed URL, so that the order of the range does not matter)
validateComponentConfig(c) ==
    IF \E k \in DOMAIN c.Plank.JobURLPrefixConfig : ~UrlParseOk(c.Plank.JobURLPrefixConfig[k])
    THEN [c |-> c, err |-> Err("Invalid value for Planks job_url_prefix_config", NoJob)]
    ELSE IF IsNil(c.SlackReporter) THEN [c |-> c, err |-> NoErr]
    ELSE IF Deref(c.SlackReporter).Channel = ""
    THEN [c |-> [c EXCEPT !.SlackReporter[1].ReportTemplate =
                              IF @ = "" THEN "default template" ELSE @],
          err |-> Wrap("failed to validate slackreporter config", Err("channel must be set", NoJob))]
    ELSE IF Deref(c.SlackReporter).ReportTemplate = "{{bad"
    THEN [c |-> c, err |-> Wrap("failed to validate slackreporter config", Err("failed to parse template", NoJob))]
    ELSE [c |-> [c EXCEPT !.SlackReporter[1].ReportTemplate =
                              IF @ = "" THEN "default template" ELSE @],
          err |-> NoErr]

(***************************************************************************)
(* Loading.                                                                *)
(***************************************************************************)
\* ValidateController: the controller as it is left and the error (the two
\* templates are not modelled)
ValidateController(ctl) ==
    LET d == [ctl EXCEPT !.MaxGoroutines = IF @ = 0 THEN 20 ELSE @]
    IN IF ctl.MaxConcurrency < 0
       THEN [ctl |-> ctl, err |-> Err("controller has invalid max_concurrency", NoJob)]
       ELSE IF d.MaxGoroutines <= 0
       THEN [ctl |-> d, err |-> Err("controller has invalid max_goroutines", NoJob)]
       ELSE [ctl |-> d, err |-> NoErr]

\* logrus.ParseLevel
LogLevels == {"debug", "info", "warn", "warning", "error", "fatal", "panic"}

\* parseProwConfig, for the fields of this model: the plank controller, the
\* two namespaces, the job-URL prefixes and the log level
\* the bytes of the viewer names of this model in their order
ByteOrder == <<"v", "w">>
ByteLess(x, y) ==
    \E i, j \in 1..Len(ByteOrder) : ByteOrder[i] = x /\ ByteOrder[j] = y /\ i < j

\* the operator < of Go on strings
RECURSIVE TextLess(_, _)
TextLess(a, b) ==
    IF b = <<>> THEN FALSE
    ELSE IF a = <<>> THEN TRUE
    ELSE IF Head(a) = Head(b) THEN TextLess(Tail(a), Tail(b))
    ELSE ByteLess(Head(a), Head(b))

\* the orders in which a range over a map can visit its keys
KeyOrders(m) ==
    {f \in [1..Cardinality(DOMAIN m) -> DOMAIN m] :
        \A i, j \in DOMAIN f : i # j => f[i] # f[j]}

LensFileConfig(regex, viewer) == [RequiredFiles |-> <<regex>>, Lens |-> [Name |-> viewer]]

\* parseProwConfig, lines 1130-1141: the lenses made of the viewers, the
\* patterns visited in the given order
RECURSIVE oldLenses(_, _)
oldLenses(viewers, order) ==
    IF order = <<>> THEN <<>>
    ELSE [i \in 1..Len(viewers[Head(order)]) |->
             LensFileConfig(Head(order), viewers[Head(order)][i])]
         \o oldLenses(viewers, Tail(order))

\* a sort.Slice that leaves the slice as it is
SortSliceKeepsOrder(lenses) == {lenses}

\* sort.Slice by the name of the lens, line 1143: the slice in one of the
\* orders that are sorted; sort.Slice does not promise which when two
\* elements are equal under less
SortSlice(lenses) ==
    {[i \in 1..Len(lenses) |-> lenses[p[i]]] :
        p \in {q \in [1..Len(lenses) -> 1..Len(lenses)] :
                  /\ \A i, j \in 1..Len(lenses) : i # j => q[i] # q[j]
                  /\ \A i, j \in 1..Len(lenses) :
                        i < j => ~TextLess(lenses[q[j]].Lens.Name, lenses[q[i]].Lens.Name)}}

\* parseProwConfig, line 1144: the migrated lenses appended to the given ones
migrateViewers(c, sorted) == [c EXCEPT !.Deck.Spyglass.Lenses = @ \o sorted]

\* parseProwConfig, on a document whose viewers have been migrated
parseProwConfig(c) ==
    LET v == ValidateController(c.Plank.Controller)
        d == [c EXCEPT !.Plank.Controller = v.ctl,
                       !.ProwJobNamespace = IF @ = "" THEN "default" ELSE @,
                       !.PodNamespace = IF @ = "" THEN "default" ELSE @,
                       !.LogLevel = IF @ = "" THEN "info" ELSE @]
    IN IF IsErr(v.err) THEN [c |-> c, err |-> Wrap("validating plank config", v.err)]
       ELSE IF \E i \in 1..Len(c.Deck.Spyglass.Lenses) :
                  \E k \in 1..Len(c.Deck.Spyglass.Lenses[i].RequiredFiles) :
                     ~Compiles(c.Deck.Spyglass.Lenses[i].RequiredFiles[k])
       THEN [c |-> c, err |-> Err("cannot compile regexp", NoJob)]
       ELSE IF d.LogLevel \notin LogLevels
       THEN [c |-> d, err |-> Err("not a valid logrus Level", NoJob)]
       ELSE [c |-> d, err |-> NoErr]

\* the label:value pairs of a preset list, one sequence entry per pair
PresetPairs(presets) ==
    UNION {{<<i, l, presets[i].Labels[l]>> : l \in DOMAIN presets[i].Labels} :
              i \in 1..Len(presets)}

\* lines 729-739 of mergeJobConfigs: two entries of the merged preset list
\* (a preset's own labels are distinct keys) share a label:value pair
DuplicatedPresetPair(presets) ==
    \E x, y \in PresetPairs(presets) : x[1] # y[1] /\ x[2] = y[2] /\ x[3] = y[3]

\* a merge in which the later list of a repository replaces the earlier one
MergeRepoListsOverwrite(a, b) ==
    [repo \in DOMAIN a \cup DOMAIN b |-> IF Has(b, repo) THEN b[repo] ELSE a[repo]]

\* the per-repository concatenation of mergeJobConfigs
MergeRepoLists(a, b) ==
    [repo \in DOMAIN a \cup DOMAIN b |->
        (IF Has(a, repo) THEN a[repo] ELSE <<>>) \o (IF Has(b, repo) THEN b[repo] ELSE <<>>)]

\* mergeJobConfigs
mergeJobConfigs(a, b) ==
    IF DuplicatedPresetPair(a.Presets \o b.Presets)
    THEN [jc |-> [Presets |-> <<>>, Presubmits |-> EmptyMap,
                  Postsubmits |-> EmptyMap, Periodics |-> <<>>],
          err |-> Err("duplicated preset 'label:value' pair", NoJob)]
    ELSE [jc |-> [Presets |-> a.Presets \o b.Presets,
                  Presubmits |-> MergeRepoLists(a.Presubmits, b.Presubmits),
                  Postsubmits |-> MergeRepoLists(a.Postsubmits, b.Postsubmits),
                  Periodics |-> a.Periodics \o b.Periodics],
          err |-> NoErr]

\* the end of yamlToConfig: every job is tagged with the path it was read from
SetSourcePath(jc, path) ==
    LET tag(js) == [i \in 1..Len(js) |-> [js[i] EXCEPT !.SourcePath = path]]
    IN [jc EXCEPT !.Presubmits = [r \in DOMAIN @ |-> tag(@[r])],
                  !.Postsubmits = [r \in DOMAIN @ |-> tag(@[r])],
                  !.Periodics = tag(@)]

\* strings.HasPrefix
HasPrefix(name, pre) ==
    Len(name) >= Len(pre) /\ SubSeq(name, 1, Len(pre)) = pre

\* filepath.Ext of a base name: the suffix that starts at its last dot, the
\* empty text without a dot
Ext(name) ==
    IF "." \notin Range(name) THEN <<>>
    ELSE LET k == CHOOSE i \in 1..Len(name) :
                     name[i] = "." /\ \A j \in (i + 1)..Len(name) : name[j] # "."
         IN SubSeq(name, k, Len(name))

Tyaml == <<".", "y", "a", "m", "l">>
Tyml == <<".", "y", "m", "l">>
Tdotdot == <<".", ".">>

\* a job configuration with nothing in it, JobConfig{}
NoJobs ==
    [Presets |-> <<>>, Presubmits |-> EmptyMap, Postsubmits |-> EmptyMap,
     Periodics |-> <<>>]

\* the walk that takes every file, whatever names it has met before
RECURSIVE WalkJobConfigAnyBasename(_, _, _, _, _)
WalkJobConfigAnyBasename(entries, i, jc, uniqueBasenames, skipped) ==
    IF i > Len(entries) THEN [jc |-> jc, err |-> NoErr]
    ELSE LET e == entries[i]
             m == mergeJobConfigs(jc, SetSourcePath(e.doc, e.name))
             pass == WalkJobConfigAnyBasename(entries, i + 1, jc, uniqueBasenames, skipped)
             skip == WalkJobConfigAnyBasename(entries, i + 1, jc, uniqueBasenames,
                                              IF e.isDir THEN skipped \cup {i} ELSE skipped)
         IN IF e.under \in skipped THEN skip
            ELSE IF e.stat = "unreadable" THEN skip
            ELSE IF HasPrefix(e.name, Tdotdot) THEN skip
            ELSE IF Ext(e.name) \notin {Tyaml, Tyml} THEN pass
            ELSE IF e.isDir THEN pass
            ELSE IF e.stat = "malformed"
            THEN [jc |-> NoJobs, err |-> Err("error unmarshaling", NoJob)]
            ELSE IF IsErr(m.err) THEN [jc |-> NoJobs, err |-> m.err]
            ELSE WalkJobConfigAnyBasename(entries, i + 1, m.jc,
                                          uniqueBasenames \cup {e.name}, skipped)

\* the callback ReadJobConfig gives filepath.Walk, run over the entries under
\* the directory in the order Walk meets them, from entry i on.  An entry is
\* [name, under, isDir, stat, doc]: its base name, the position in the list
\* of the directory that holds it (0 for the directory walked), whether it is
\* a directory, what reading it gives ("unreadable" when Walk hands the
\* callback an error) and the document it holds.  skipped holds the
\* directories Walk does not go into: those the callback answers SkipDir for,
\* those it cannot read, and those under them.
RECURSIVE WalkJobConfig(_, _, _, _, _)
WalkJobConfig(entries, i, jc, uniqueBasenames, skipped) ==
    IF i > Len(entries) THEN [jc |-> jc, err |-> NoErr]
    ELSE LET e == entries[i]
             m == mergeJobConfigs(jc, SetSourcePath(e.doc, e.name))
             pass == WalkJobConfig(entries, i + 1, jc, uniqueBasenames, skipped)
             skip == WalkJobConfig(entries, i + 1, jc, uniqueBasenames,
                                   IF e.isDir THEN skipped \cup {i} ELSE skipped)
         IN IF e.under \in skipped THEN skip
            ELSE IF e.stat = "unreadable" THEN skip
            ELSE IF HasPrefix(e.name, Tdotdot) THEN skip
            ELSE IF Ext(e.name) \notin {Tyaml, Tyml} THEN pass
            ELSE IF e.isDir THEN pass
            ELSE IF e.name \in uniqueBasenames
            THEN [jc |-> NoJobs, err |-> Err("duplicated basename is not allowed", NoJob)]
            ELSE IF e.stat = "malformed"
            THEN [jc |-> NoJobs, err |-> Err("error unmarshaling", NoJob)]
            ELSE IF IsErr(m.err) THEN [jc |-> NoJobs, err |-> m.err]
            ELSE WalkJobConfig(entries, i + 1, m.jc, uniqueBasenames \cup {e.name}, skipped)

\* ReadJobConfig: stat says what the path names, doc what the file holds and
\* dir the entries under the directory
ReadJobConfig(stat, doc, dir) ==
    IF stat = "missing" THEN [jc |-> doc, err |-> Err("no such file or directory", NoJob)]
    ELSE IF stat = "malformed" THEN [jc |-> doc, err |-> Err("error unmarshaling", NoJob)]
    ELSE IF stat = "dir" THEN WalkJobConfig(dir, 1, NoJobs, {}, {})
    ELSE [jc |-> SetSourcePath(doc, "jobs.yaml"), err |-> NoErr]

\* Config.mergeJobConfig
mergeJobConfig(c, jc) ==
    LET m == mergeJobConfigs([Presets |-> c.Presets, Presubmits |-> c.Presubmits,
                              Postsubmits |-> c.Postsubmits, Periodics |-> c.Periodics],
                             jc)
    IN IF IsErr(m.err) THEN [c |-> c, err |-> m.err]
       ELSE [c |-> [c EXCEPT !.Presets = m.jc.Presets,
                             !.Presubmits = m.jc.Presubmits,
                             !.Postsubmits = m.jc.Postsubmits,
                             !.Periodics = m.jc.Periodics],
             err |-> NoErr]

\* loadConfig: pStat, jStat say what the two paths name ("" the empty path),
\* pDoc, jDoc what the documents hold, jDir the entries under the job
\* configuration path when it is a directory
loadConfig(pStat, pDoc, jStat, jDoc, jDir) ==
    LET nc == parseProwConfig(SetSourcePath(pDoc, "config.yaml"))
        jc == ReadJobConfig(jStat, jDoc, jDir)
    IN IF pStat = "missing" THEN [c |-> pDoc, err |-> Err("no such file or directory", NoJob)]
       ELSE IF pStat = "dir" THEN [c |-> pDoc, err |-> Err("prowConfig cannot be a dir", NoJob)]
       ELSE IF pStat = "malformed" THEN [c |-> pDoc, err |-> Err("error unmarshaling", NoJob)]
       ELSE IF IsErr(nc.err) THEN nc
       ELSE IF jStat = "" THEN [c |-> nc.c, err |-> NoErr]
       ELSE IF IsErr(jc.err) THEN [c |-> nc.c, err |-> jc.err]
       ELSE mergeJobConfig(nc.c, jc.jc)

(***************************************************************************)
(* Input documents.                                                        *)
(***************************************************************************)
Container1 == [Command |-> <<"run">>, Args |-> <<>>, Env |-> <<>>]
PodSpec1 == [Containers |-> <<Container1>>, InitContainers |-> <<>>, Volumes |-> <<>>]
NoBrancher == [Branches |-> <<>>, SkipBranches |-> <<>>, re |-> Nil, reSkip |-> Nil]

\* a job as a document gives it, with nothing but the name and a pod spec set
Job(name) ==
    [Name |-> name, Agent |-> "", Namespace |-> Nil, Cluster |-> "",
     Labels |-> EmptyMap, Spec |-> Some(PodSpec1), MaxConcurrency |-> 0,
     ErrorOnEviction |-> FALSE, RerunAuthConfig |-> Nil, SourcePath |-> "",
     Decorate |-> FALSE, DecorationConfig |-> Nil, ExtraRefs |-> <<>>,
     Brancher |-> NoBrancher, RunIfChanged |-> <<>>, reChanges |-> Nil,
     AlwaysRun |-> FALSE, SkipReport |-> FALSE, Context |-> <<>>,
     Trigger |-> <<>>, RerunCommand |-> <<>>, re |-> Nil,
     Cron |-> <<>>, Interval |-> <<>>, interval |-> Nil]


\* the primary document with nothing set
NoConfig ==
    [Presets |-> <<>>, Presubmits |-> EmptyMap, Postsubmits |-> EmptyMap,
     Periodics |-> <<>>, AllRepos |-> {},
     Plank |-> [Controller |-> [MaxConcurrency |-> 0, MaxGoroutines |-> 0],
                DefaultDecorationConfig |-> Nil,
                DefaultDecorationConfigs |-> EmptyMap,
                JobURLPrefixConfig |-> EmptyMap],
     SlackReporter |-> Nil, ProwJobNamespace |-> "", PodNamespace |-> "",
     LogLevel |-> "",
     InRepoConfig |-> [Enabled |-> EmptyMap], FakeInRepoConfig |-> Nil,
     Deck |-> [Spyglass |-> [Lenses |-> <<>>, Viewers |-> EmptyMap]]]

\* the phases of Load in the order it runs them, and the stage of each
Phases ==
    <<"loadConfig",
      "finalizeDecoration", "defaultPresubmits", "defaultPostsubmits", "defaultPeriodics",
      "validateComponentConfig",
      "validatePresubmits", "validatePostsubmits", "validatePeriodics", "setIntervals">>
MapPhases ==
    {"defaultPresubmits", "defaultPostsubmits", "validatePresubmits", "validatePostsubmits"}
StageOf(phase) ==
    IF phase = "loadConfig" THEN "loadConfig"
    ELSE IF phase \in {"finalizeDecoration", "defaultPresubmits", "defaultPostsubmits",
                       "defaultPeriodics"} THEN "finalizeJobConfig"
    ELSE IF phase = "validateComponentConfig" THEN "validateComponentConfig"
    ELSE "validateJobConfig"

\* an input of Load: what the two paths name and hold, and the phase in
\* which a run-time fault (a panic) strikes, if any
Input(pStat, pDoc, jStat, jDoc, flt) ==
    [prowConfig |-> pStat, prowDoc |-> pDoc, jobConfig |-> jStat, jobDoc |-> jDoc,
     jobDir |-> <<>>, fault |-> flt, asked |-> Nil]

\* an input of Load whose job configuration path is a directory
DirInput(pDoc, jDir) ==
    [prowConfig |-> "file", prowDoc |-> pDoc, jobConfig |-> "dir", jobDoc |-> NoJobs,
     jobDir |-> jDir, fault |-> "none", asked |-> Nil]

Ta == <<"a">>
Tb == <<"b">>
RepoOR == <<"o", "/", "r">>
RepoOQ == <<"o", "/", "q">>
RepoPQ == <<"p", "/", "q">>
OrgO == <<"o">>

\* the job lists split over the primary document and the job document
Splits(list) == {[head |-> SubSeq(list, 1, k), tail |-> SubSeq(list, k + 1, Len(list))] :
                    k \in 0..Len(list)}

\* --- duplicate detection: same-name jobs of one repository, with branch filters
DupJobs ==
    {[Job(Ta) EXCEPT !.Brancher.Branches = br, !.Brancher.SkipBranches = sk] :
        br \in {<<>>, <<Ta>>, <<Tb>>}, sk \in {<<>>, <<Ta>>}}
    \cup {Job(Tb)}

DupInputs ==
    {Input("file",
           IF kind = "presubmit"
           THEN [NoConfig EXCEPT !.Presubmits = (RepoOR :> sp.head) @@ (RepoPQ :> <<Job(Ta)>>)]
           ELSE [NoConfig EXCEPT !.Postsubmits = (RepoOR :> sp.head) @@ (RepoPQ :> <<Job(Ta)>>)],
           "file",
           IF kind = "presubmit"
           THEN [NoJobs EXCEPT !.Presubmits = (RepoOR :> sp.tail)]
           ELSE [NoJobs EXCEPT !.Postsubmits = (RepoOR :> sp.tail)],
           "none") :
        kind \in {"presubmit", "postsubmit"},
        sp \in UNION {Splits(l) : l \in SeqsOf(DupJobs, 0, MaxJobs)}}

\* --- two jobs of one name and one repository, each scoped to branches by
\* anchored or unanchored patterns
OnlyA == <<"^", "a", "$">>
OnlyB == <<"^", "b", "$">>
BranchLists == {<<OnlyA>>, <<OnlyB>>, <<OnlyA, OnlyB>>, <<OnlyB, OnlyA>>, <<Ta>>}
BranchInputs ==
    {Input("file",
           IF kind = "presubmit"
           THEN [NoConfig EXCEPT !.Presubmits =
                    RepoOR :> <<[Job(Ta) EXCEPT !.Brancher.Branches = p],
                                [Job(Ta) EXCEPT !.Brancher.Branches = q]>>]
           ELSE [NoConfig EXCEPT !.Postsubmits =
                    RepoOR :> <<[Job(Ta) EXCEPT !.Brancher.Branches = p],
                                [Job(Ta) EXCEPT !.Brancher.Branches = q]>>],
           "", NoJobs, "none") :
        kind \in {"presubmit", "postsubmit"}, p \in BranchLists, q \in BranchLists}

\* --- triggers and rerun commands of presubmits
Tr == <<"/", "r">>
TriggerPairs ==
    {<<<<>>, <<>>>>,                      \* neither: the defaults
     <<Tr, Tr>>,                          \* the command matches the trigger
     <<Tr, DefaultRerunCommandFor(Ta)>>,  \* it does not
     <<Tr, <<>>>>,                        \* only the trigger
     <<<<".*">>, <<>>>>,                  \* only a trigger, matching anything
     <<<<>>, Tr>>,                        \* only the command
     <<<<"(">>, Tr>>}                     \* a trigger that does not compile

TriggerJobs ==
    {[Job(Ta) EXCEPT !.Trigger = tp[1], !.RerunCommand = tp[2]] : tp \in TriggerPairs}
    \cup {Job(<<"a", ".", "b">>)}
    \cup {[Job(Ta) EXCEPT !.Trigger = tp[1], !.RerunCommand = tp[2],
                          !.AlwaysRun = TRUE, !.RunIfChanged = <<"x">>] :
             tp \in {<<<<>>, <<>>>>, <<<<".*">>, <<>>>>}}

TriggerInputs ==
    {Input("file", [NoConfig EXCEPT !.Presubmits = (RepoOR :> l)], "", NoJobs, "none") :
        l \in SeqsOf(TriggerJobs, 0, MaxJobs)}

\* --- periodics: names and schedules
Tcron == <<"0", " ", "*", " ", "*", " ", "*", " ", "*">>
Schedules ==
    {<<Tcron, <<>>>>, <<<<>>, <<"1", "h">>>>, <<Tcron, <<"1", "h">>>>,
     <<<<>>, <<>>>>, <<<<>>, <<"h">>>>}

PeriodicJobs ==
    {[Job(n) EXCEPT !.Cron = sc[1], !.Interval = sc[2]] : n \in {Ta, Tb}, sc \in Schedules}
    \cup {[Job(n) EXCEPT !.Cron = Tcron, !.Spec = Nil] : n \in {Ta, Tb}}

PeriodicInputs ==
    {Input("file", [NoConfig EXCEPT !.Periodics = sp.head],
           "file", [NoJobs EXCEPT !.Periodics = sp.tail], "none") :
        sp \in UNION {Splits(l) : l \in SeqsOf(PeriodicJobs, 0, MaxJobs)}}

\* --- decoration: who requests it, and the defaults plank holds
DC(t, g, u) == Some([Timeout |-> t, GracePeriod |-> g, UtilityImages |-> u])
DCStar == DC(1, 1, 1)
DCStarInvalid == DC(1, 1, 0)
DCOrg == DC(2, 0, 2)
DCOrgFull == DC(2, 2, 2)
DCRepo == DC(3, 0, 0)
DCJob == DC(4, 0, 0)
DCEmptyKey == DC(5, 5, 5)

DefaultMaps ==
    {s @@ o @@ r @@ e :
        s \in {EmptyMap, Tstar :> DCStar, Tstar :> DCStarInvalid},
        o \in {EmptyMap, OrgO :> DCOrg, OrgO :> DCOrgFull},
        r \in {EmptyMap, RepoOR :> DCRepo},
        e \in {EmptyMap, <<>> :> DCEmptyKey}}

DecorationInputs ==
    {Input("file",
           [NoConfig EXCEPT
              !.Presubmits = (repo :> <<[Job(Ta) EXCEPT !.Decorate = dec[1], !.DecorationConfig = dc]>>),
              !.Postsubmits = (repo :> <<[Job(Ta) EXCEPT !.Decorate = dec[2], !.DecorationConfig = dc]>>),
              !.Periodics = <<[Job(Ta) EXCEPT !.Decorate = dec[3], !.DecorationConfig = dc,
                                              !.ExtraRefs = refs, !.Cron = Tcron]>>,
              !.Plank.DefaultDecorationConfig = legacy,
              !.Plank.DefaultDecorationConfigs = m],
           "", NoJobs, "none") :
        repo \in {RepoOR, RepoOQ, RepoPQ},
        dec \in BOOLEAN \X BOOLEAN \X BOOLEAN,
        dc \in {Nil, DCJob},
        refs \in {<<>>, <<[Org |-> <<"o">>, Repo |-> <<"r">>]>>},
        legacy \in {Nil, DCStar, DCStarInvalid},
        m \in DefaultMaps}

\* --- the paths, the component configuration and run-time faults
ValidConfig ==
    [NoConfig EXCEPT !.Presubmits = (RepoOR :> <<Job(Ta)>>),
                     !.Postsubmits = (RepoOR :> <<Job(Ta)>>),
                     !.Periodics = <<[Job(Ta) EXCEPT !.Cron = Tcron]>>]
ValidJobs == [NoJobs EXCEPT !.Periodics = <<[Job(Tb) EXCEPT !.Interval = <<"1", "h">>]>>]

Faults == {"none"} \cup Range(Phases)

PathInputs ==
    {Input(ps, ValidConfig, js, ValidJobs, f) :
        ps \in {"file", "dir", "missing", "malformed"},
        js \in {"", "file", "missing", "malformed"},
        f \in Faults}

\* --- job configuration read from a directory
Tc == <<"c">>
TaYaml == Ta \o Tyaml
TbYml == Tb \o Tyml

\* a regular file under the directory
File(name, doc) ==
    [name |-> name, under |-> 0, isDir |-> FALSE, stat |-> "file", doc |-> doc]

\* the job lists a document may hold, its jobs named name
Fragments(name) ==
    {[NoJobs EXCEPT !.Presubmits = pre, !.Postsubmits = post] :
        pre \in {EmptyMap, RepoOR :> <<Job(name)>>, RepoOQ :> <<Job(name)>>,
                 RepoOR :> <<Job(name), Job(<<"x">>)>>},
        post \in {EmptyMap, RepoOR :> <<Job(name)>>}}

\* entries the walk passes over or fails on
OddEntries ==
    {File(TaYaml, NoJobs),
     File(Tb \o <<".", "t", "x", "t">>, NoJobs),
     File(Tdotdot \o TbYml, NoJobs),
     [File(TbYml, NoJobs) EXCEPT !.isDir = TRUE],
     [File(TbYml, NoJobs) EXCEPT !.stat = "unreadable"],
     [File(TbYml, NoJobs) EXCEPT !.stat = "malformed"]}

\* a directory under the directory walked, and a file under the entry at
\* position d
SubDir(name) == [File(name, NoJobs) EXCEPT !.isDir = TRUE]
FileUnder(d, name, doc) == [File(name, doc) EXCEPT !.under = d]
Tsub == <<"s", "u", "b">>

\* a.yaml, then perhaps a malformed b.yml, then a directory and then a file
\* in that directory
TreeInputs ==
    {DirInput(ValidConfig,
              <<File(TaYaml, b)>> \o mid \o <<SubDir(dname)>>
                 \o <<[FileUnder(Len(mid) + 2, fname, d) EXCEPT !.stat = st]>>) :
        b \in {x \in Fragments(Tb) : x.Postsubmits = EmptyMap},
        mid \in {<<>>, <<[File(TbYml, NoJobs) EXCEPT !.stat = "malformed"]>>},
        dname \in {Tsub, Tdotdot \o Tsub, Tsub \o Tyaml},
        fname \in {TaYaml, Tc \o Tyaml, Tdotdot \o TaYaml},
        st \in {"file", "malformed"},
        d \in {x \in Fragments(Tc) : x.Postsubmits = EmptyMap}}

DirInputs ==
    {DirInput([ValidConfig EXCEPT !.Presubmits = a.Presubmits, !.Postsubmits = a.Postsubmits],
              <<File(TaYaml, b), File(TbYml, d)>>) :
        a \in Fragments(Ta), b \in Fragments(Tb), d \in Fragments(Tc)}
    \cup
    {DirInput(ValidConfig, <<File(TaYaml, b)>> \o odd \o <<File(Tc \o Tyaml, d)>>) :
        b \in {x \in Fragments(Tb) : x.Postsubmits = EmptyMap},
        odd \in {<<e>> : e \in OddEntries},
        d \in {x \in Fragments(Tc) : x.Postsubmits = EmptyMap}}

\* --- presets in the primary document and in the job configuration
Preset(labels) == [Labels |-> labels, Env |-> <<>>, Volumes |-> <<>>]
PresetChoices ==
    {Preset("k" :> "1"), Preset("k" :> "2"), Preset("k" :> "1" @@ "m" :> "1")}
PresetLists == SeqsOf(PresetChoices, 0, MaxPresets)

PresetInputs ==
    {Input("file", [ValidConfig EXCEPT !.Presets = p], js,
           [ValidJobs EXCEPT !.Presets = q], "none") :
        p \in PresetLists, q \in PresetLists, js \in {"", "file"}}
    \cup
    {DirInput([ValidConfig EXCEPT !.Presets = p],
              <<File(TaYaml, [NoJobs EXCEPT !.Presets = q[1]]),
                File(TbYml, [NoJobs EXCEPT !.Presets = q[2]])>>) :
        p \in {<<>>} \cup {<<x>> : x \in PresetChoices},
        q \in ({<<>>} \cup {<<x>> : x \in PresetChoices})
               \X ({<<>>} \cup {<<x>> : x \in PresetChoices})}

\* --- one job of each kind, of any agent, with or without a pod spec, a
\* namespace, a cluster and context, a decoration configuration, eviction
\* errors and a rerun authorization
AgentChoices == KnownAgents \cup {"", "mystery"}
DCFull == DC(4, 4, 4)
Auth(anyone, users, ids, slugs) ==
    Some([AllowAnyone |-> anyone, GitHubUsers |-> users, GitHubTeamIDs |-> ids,
          GitHubTeamSlugs |-> slugs])
AuthChoices ==
    {Nil, Auth(TRUE, <<>>, <<>>, <<>>), Auth(TRUE, <<"u">>, <<>>, <<>>),
     Auth(TRUE, <<>>, <<7>>, <<>>), Auth(TRUE, <<>>, <<>>, <<"t">>),
     Auth(FALSE, <<"u">>, <<>>, <<>>)}
AgentJobs ==
    {[Job(Ta) EXCEPT !.Agent = a, !.Spec = sp, !.Namespace = ns,
                     !.Cluster = cl[1], !.Context = cl[2],
                     !.DecorationConfig = dc, !.ErrorOnEviction = eoe,
                     !.RerunAuthConfig = auth, !.Cron = Tcron] :
        a \in AgentChoices, sp \in {Nil, Some(PodSpec1)},
        ns \in {Nil, Some(""), Some("default"), Some("other")},
        cl \in {<<"", <<>>>>, <<"build", <<"x">>>>},
        dc \in {Nil, DCFull}, eoe \in BOOLEAN, auth \in AuthChoices}
AgentInputs ==
    {Input("file", [NoConfig EXCEPT !.Presubmits = (RepoOR :> <<j>>)], "", NoJobs, "none") :
        j \in AgentJobs}
    \cup
    {Input("file", [NoConfig EXCEPT !.Postsubmits = (RepoOR :> <<j>>)], "", NoJobs, "none") :
        j \in AgentJobs}
    \cup
    {Input("file", [NoConfig EXCEPT !.Periodics = <<j>>], "", NoJobs, "none") :
        j \in AgentJobs}

\* --- one job of an agent that is not known, with a name, a concurrency
\* limit, a pod spec and labels that are or are not in order
PodSpecChoices ==
    {Nil, Some(PodSpec1),
     Some([PodSpec1 EXCEPT !.Containers = <<Container1, Container1>>]),
     Some([PodSpec1 EXCEPT !.InitContainers = <<Container1>>])}
LabelChoices == {EmptyMap, "key" :> "value", "-key" :> "value", "key" :> "-value"}
UnknownAgentJobs ==
    {[Job(n) EXCEPT !.Agent = "mystery", !.MaxConcurrency = mc, !.Spec = sp,
                    !.Labels = lb, !.Cron = Tcron] :
        n \in {Ta, <<"!">>}, mc \in {0, -1}, sp \in PodSpecChoices, lb \in LabelChoices}
UnknownAgentInputs ==
    {Input("file", [NoConfig EXCEPT !.Presubmits = (RepoOR :> <<j>>)], "", NoJobs, "none") :
        j \in UnknownAgentJobs}
    \cup
    {Input("file", [NoConfig EXCEPT !.Periodics = <<j>>], "", NoJobs, "none") :
        j \in UnknownAgentJobs}

\* --- viewers in the legacy form, the same viewer under one or two file
\* patterns, with or without a lens given in the new form
Tv == <<"v">>
Tw == <<"w">>
ViewerMaps ==
    {a @@ b @@ x :
        a \in {EmptyMap, Ta :> <<Tv>>, Ta :> <<Tw>>, Ta :> <<Tw, Tv>>},
        b \in {EmptyMap, Tb :> <<Tv>>, Tb :> <<Tw>>},
        x \in {EmptyMap, <<"(">> :> <<Tv>>}}
ViewerInputs ==
    {Input("file", [ValidConfig EXCEPT !.Deck.Spyglass = [Lenses |-> given, Viewers |-> m]],
           "", NoJobs, "none") :
        m \in ViewerMaps, given \in {<<>>, <<LensFileConfig(Tc, Tw)>>}}

\* --- presubmits of every name over a letter of each case, a digit and the
\* three marks, with neither trigger nor rerun command
NameChars == {"a", "Z", "0", "-", ".", "_"}
NameInputs ==
    {Input("file", [NoConfig EXCEPT !.Presubmits = (RepoOR :> <<Job(n)>>)], "", NoJobs, "none") :
        n \in SeqsOf(NameChars, 0, MaxNameLen)}

\* --- two repositories, each with a presubmit that may fail to compile or
\* to validate
FailingJobs(name) ==
    {Job(name), [Job(name) EXCEPT !.Trigger = <<"(">>, !.RerunCommand = <<"(">>],
     [Job(name) EXCEPT !.Agent = JenkinsAgent]}
TwoRepoInputs ==
    {Input("file", [NoConfig EXCEPT !.Presubmits = (RepoOR :> <<j>> @@ RepoPQ :> <<k>>)],
           "", NoJobs, "none") :
        j \in FailingJobs(Ta), k \in FailingJobs(Tb)}

\* --- a caller that asks the loaded configuration whether in-repo
\* configuration is enabled for an identifier, in a test that has or has not
\* installed a fake in-repo configuration
EnabledMaps ==
    {r @@ o @@ s :
        r \in {EmptyMap, RepoOR :> Some(TRUE), RepoOR :> Some(FALSE), RepoOR :> Nil},
        o \in {EmptyMap, OrgO :> Some(TRUE), OrgO :> Some(FALSE)},
        s \in {EmptyMap, Tstar :> Some(TRUE), Tstar :> Some(FALSE)}}
Identifiers == {RepoOR, RepoOQ, RepoPQ, OrgO, RepoOR \o Tslash \o <<"s">>}
InRepoInputs ==
    {[Input("file", [ValidConfig EXCEPT !.InRepoConfig.Enabled = m], "", NoJobs, "none")
         EXCEPT !.asked = Some([identifier |-> id, fake |-> fk])] :
        m \in EnabledMaps, id \in Identifiers, fk \in {Nil, Some(EmptyMap)}}

ComponentInputs ==
    {Input("file",
           [ValidConfig EXCEPT !.Plank.Controller = [MaxConcurrency |-> mc, MaxGoroutines |-> mg],
                               !.Plank.JobURLPrefixConfig = urls,
                               !.SlackReporter = slack,
                               !.PodNamespace = ns,
                               !.LogLevel = lvl],
           "file", ValidJobs, f) :
        mc \in {0, -1}, mg \in {0, -1, 5},
        urls \in {EmptyMap, Tstar :> "https://prow", Tstar :> "%zz"},
        slack \in {Nil, Some([Channel |-> "", ReportTemplate |-> ""]),
                   Some([Channel |-> "c", ReportTemplate |-> ""]),
                   Some([Channel |-> "c", ReportTemplate |-> "{{bad"])},
        ns \in {"", "pods"}, lvl \in {"", "debug", "loud"},
        f \in {"none", "setIntervals"}}

(***************************************************************************)
(* Load as a state machine.  A phase is a part of a stage of Load that     *)
(* runs in one step; a phase that is a range over a Go map runs once per   *)
(* key, the keys taken in any order.                                       *)
(***************************************************************************)
VARIABLES
    prowConfig,  \* what the path of the primary document names
    prowDoc,     \* what the primary document holds
    jobConfig,   \* what the path of the job documents names, "" for no path
    jobDoc,      \* what the job document holds
    jobDir,      \* the entries under the job configuration directory
    fault,       \* the phase in which a run-time fault strikes, or "none"
    c,           \* the configuration under construction (nil before loadConfig)
    pc,          \* the phase Load is about to run, or "returned"
    todo,        \* the keys the range of the current phase has yet to visit
    at,          \* the phase that ran last and the key its range was at
    ret,         \* what Load returned: the configuration, the error, and
                 \* whether a panic reached the caller instead
    prev,        \* what an earlier Load of the same paths returned, if the
                 \* caller has called Load before
    asked,       \* the identifier the caller asks InRepoConfigEnabled about,
                 \* and the fake in-repo configuration it installs, if it asks
    answer       \* what InRepoConfigEnabled answered

vars ==
    <<prowConfig, prowDoc, jobConfig, jobDoc, jobDir, fault, asked, c, pc, todo, at, ret,
      prev, answer>>
inputVars == <<prowConfig, prowDoc, jobConfig, jobDoc, jobDir, fault, asked>>

NoRet == [c |-> Nil, err |-> NoErr, panicked |-> FALSE]
NoKey == <<>>

InitWith(S) ==
    /\ \E in \in S :
          /\ prowConfig = in.prowConfig
          /\ prowDoc = in.prowDoc
          /\ jobConfig = in.jobConfig
          /\ jobDoc = in.jobDoc
          /\ jobDir = in.jobDir
          /\ fault = in.fault
          /\ asked = in.asked
    /\ c = Nil
    /\ pc = Phases[1]
    /\ todo = {}
    /\ at = [phase |-> "", key |-> NoKey]
    /\ ret = NoRet
    /\ prev = Nil
    /\ answer = Nil

Init ==
    \/ InitWith(DupInputs)
    \/ InitWith(TriggerInputs)
    \/ InitWith(PeriodicInputs)
    \/ InitWith(DecorationInputs)
    \/ InitWith(PathInputs)
    \/ InitWith(DirInputs)
    \/ InitWith(TreeInputs)
    \/ InitWith(PresetInputs)
    \/ InitWith(AgentInputs)
    \/ InitWith(NameInputs)
    \/ InitWith(TwoRepoInputs)
    \/ InitWith(InRepoInputs)
    \/ InitWith(BranchInputs)
    \/ InitWith(UnknownAgentInputs)
    \/ InitWith(ViewerInputs)
    \/ InitWith(ComponentInputs)

\* the keys phase k ranges over
RangeOf(k, cfg) ==
    IF Phases[k] \in {"defaultPresubmits", "validatePresubmits"} THEN DOMAIN cfg.Presubmits
    ELSE IF Phases[k] \in {"defaultPostsubmits", "validatePostsubmits"} THEN DOMAIN cfg.Postsubmits
    ELSE {}

\* the first phase from k on that has something to run: a range over an empty
\* map has not
RECURSIVE PhaseFrom(_, _)
PhaseFrom(k, cfg) ==
    IF k > Len(Phases) THEN k
    ELSE IF Phases[k] \in MapPhases /\ RangeOf(k, cfg) = {} THEN PhaseFrom(k + 1, cfg)
    ELSE k

\* Load without its deferred function: the panic reaches the caller
RecoverNothing(r) == [c |-> Nil, err |-> NoErr, panicked |-> TRUE]

\* the deferred function of Load, lines 506-510, when a panic unwinds: what
\* Load returns
Recover(r) == [c |-> Nil, err |-> Err("panic loading config", NoJob), panicked |-> FALSE]

\* Load handing out, with the error, the configuration the stage worked on
ReturnErrKeepConfig(cfg, err) == [c |-> Some(cfg), err |-> err, panicked |-> FALSE]

\* Load returns (nil, err) when a stage fails
ReturnErr(cfg, err) == [c |-> Nil, err |-> err, panicked |-> FALSE]

\* Load returns (c, nil) after the last stage
ReturnOk(cfg) == [c |-> Some(cfg), err |-> NoErr, panicked |-> FALSE]

\* Load going on to the next phase whatever a phase after loadConfig returns
RanPastErrors(k, r, left) ==
    IF IsErr(r.err) /\ k = 1
    THEN /\ ret' = ReturnErr(r.c, r.err)
         /\ pc' = "returned"
         /\ todo' = {}
         /\ c' = Nil
    ELSE IF left # {}
    THEN /\ c' = Some(r.c)
         /\ todo' = left
         /\ UNCHANGED <<pc, ret>>
    ELSE LET n == PhaseFrom(k + 1, r.c)
         IN /\ c' = Some(r.c)
            /\ IF n > Len(Phases)
               THEN ret' = ReturnOk(r.c) /\ pc' = "returned" /\ todo' = {}
               ELSE ret' = ret /\ pc' = Phases[n] /\ todo' = RangeOf(n, r.c)

\* phase k has run with result r = [c, err], the keys of left yet to visit:
\* Load returns on an error and after the last phase, and goes on otherwise
Ran(k, r, left) ==
    IF IsErr(r.err)
    THEN /\ ret' = ReturnErr(r.c, r.err)
         /\ pc' = "returned"
         /\ todo' = {}
         \* loadConfig gives Load no configuration with its error; a later
         \* stage fails on the configuration it was working on
         /\ c' = IF Phases[k] = "loadConfig" THEN Nil ELSE Some(r.c)
    ELSE IF left # {}
    THEN /\ c' = Some(r.c)
         /\ todo' = left
         /\ UNCHANGED <<pc, ret>>
    ELSE LET n == PhaseFrom(k + 1, r.c)
         IN /\ c' = Some(r.c)
            /\ IF n > Len(Phases)
               THEN ret' = ReturnOk(r.c) /\ pc' = "returned" /\ todo' = {}
               ELSE ret' = ret /\ pc' = Phases[n] /\ todo' = RangeOf(n, r.c)

\* a run-time fault in phase k: the panic unwinds to the deferred function
Panics(k) ==
    /\ ret' = Recover(Phases[k])
    /\ pc' = "returned"
    /\ todo' = {}
    /\ c' = Nil

\* phase k, which is no range over a map, has computed r
Phase(k, r) ==
    /\ IF fault = Phases[k] THEN Panics(k) ELSE Ran(k, r, {})
    /\ at' = [phase |-> Phases[k], key |-> NoKey]
    /\ UNCHANGED <<inputVars, prev, answer>>

\* phase k, a range over a map, has computed r in its iteration for the key
MapPhase(k, key, r) ==
    /\ IF fault = Phases[k] THEN Panics(k) ELSE Ran(k, r, todo \ {key})
    /\ at' = [phase |-> Phases[k], key |-> key]
    /\ UNCHANGED <<inputVars, prev, answer>>

\* loadConfig, line 511
LoadConfig ==
    /\ pc = "loadConfig"
    /\ \E order \in KeyOrders(prowDoc.Deck.Spyglass.Viewers) :
          \E sorted \in SortSlice(oldLenses(prowDoc.Deck.Spyglass.Viewers, order)) :
             \E r \in {loadConfig(prowConfig, migrateViewers(prowDoc, sorted),
                                  jobConfig, jobDoc, jobDir)} : Phase(1, r)

\* finalizeJobConfig, lines 834-862
FinalizeDecoration ==
    /\ pc = "finalizeDecoration"
    /\ \E r \in {finalizeDecoration(Deref(c))} : Phase(2, r)

\* finalizeJobConfig, lines 864-869: one iteration
DefaultPresubmitsOf(cfg, repo) ==
    LET r == defaultPresubmits(cfg.Presubmits[repo], cfg, repo)
    IN [c |-> [cfg EXCEPT !.Presubmits[repo] = r.jobs,
                          !.AllRepos = IF IsErr(r.err) THEN @ ELSE @ \cup {repo}],
        err |-> r.err]

DefaultPresubmits ==
    /\ pc = "defaultPresubmits"
    /\ \E repo \in todo : \E r \in {DefaultPresubmitsOf(Deref(c), repo)} : MapPhase(3, repo, r)

\* finalizeJobConfig, lines 871-876: one iteration
DefaultPostsubmitsOf(cfg, repo) ==
    LET r == defaultPostsubmits(cfg.Postsubmits[repo], cfg, repo)
    IN [c |-> [cfg EXCEPT !.Postsubmits[repo] = r.jobs,
                          !.AllRepos = IF IsErr(r.err) THEN @ ELSE @ \cup {repo}],
        err |-> r.err]

DefaultPostsubmits ==
    /\ pc = "defaultPostsubmits"
    /\ \E repo \in todo : \E r \in {DefaultPostsubmitsOf(Deref(c), repo)} : MapPhase(4, repo, r)

\* finalizeJobConfig, lines 878-882
DefaultPeriodicsOf(cfg) ==
    LET r == defaultPeriodics(cfg.Periodics, cfg)
    IN [c |-> [cfg EXCEPT !.Periodics = r.jobs], err |-> r.err]

DefaultPeriodics ==
    /\ pc = "defaultPeriodics"
    /\ \E r \in {DefaultPeriodicsOf(Deref(c))} : Phase(5, r)

\* validateComponentConfig, line 518
ValidateComponentConfig ==
    /\ pc = "validateComponentConfig"
    /\ \E r \in {validateComponentConfig(Deref(c))} : Phase(6, r)

\* validateJobConfig, lines 996-1000: one iteration
ValidatePresubmits ==
    /\ pc = "validatePresubmits"
    /\ \E repo \in todo :
          \E err \in {validatePresubmits(Deref(c).Presubmits[repo], Deref(c).PodNamespace)} :
             MapPhase(7, repo, [c |-> Deref(c), err |-> err])

\* validateJobConfig, lines 1003-1007: one iteration
ValidatePostsubmits ==
    /\ pc = "validatePostsubmits"
    /\ \E repo \in todo :
          \E err \in {validatePostsubmits(Deref(c).Postsubmits[repo], Deref(c).PodNamespace)} :
             MapPhase(8, repo, [c |-> Deref(c), err |-> err])

\* validateJobConfig, lines 1009-1011
ValidatePeriodics ==
    /\ pc = "validatePeriodics"
    /\ \E err \in {validatePeriodics(Deref(c).Periodics, Deref(c).PodNamespace)} :
          Phase(9, [c |-> Deref(c), err |-> err])

\* validateJobConfig, lines 1013-1030
SetIntervalsOf(cfg) ==
    LET r == LoopUntilErr(cfg.Periodics,
                          [i \in 1..Len(cfg.Periodics) |-> setInterval(cfg.Periodics[i])])
    IN [c |-> [cfg EXCEPT !.Periodics = r.jobs], err |-> r.err]

SetIntervals ==
    /\ pc = "setIntervals"
    /\ \E r \in {SetIntervalsOf(Deref(c))} : Phase(10, r)

\* the caller calls Load once more with the same paths, the documents
\* unchanged
LoadAgain ==
    /\ pc = "returned"
    /\ IsNil(prev)
    /\ prev' = Some(ret)
    /\ c' = Nil
    /\ pc' = Phases[1]
    /\ todo' = {}
    /\ at' = [phase |-> "", key |-> NoKey]
    /\ ret' = NoRet
    /\ answer' = Nil
    /\ UNCHANGED inputVars

\* the caller asks the configuration Load returned whether in-repo
\* configuration is enabled for the identifier
AskInRepoConfigEnabled ==
    /\ pc = "returned"
    /\ ~IsNil(ret.c)
    /\ ~IsNil(asked)
    /\ IsNil(answer)
    /\ answer' = Some(InRepoConfigEnabled(
                         [Deref(ret.c) EXCEPT !.FakeInRepoConfig = Deref(asked).fake],
                         Deref(asked).identifier))
    /\ UNCHANGED <<inputVars, c, pc, todo, at, ret, prev>>

Next ==
    \/ LoadConfig
    \/ FinalizeDecoration
    \/ DefaultPresubmits
    \/ DefaultPostsubmits
    \/ DefaultPeriodics
    \/ ValidateComponentConfig
    \/ ValidatePresubmits
    \/ ValidatePostsubmits
    \/ ValidatePeriodics
    \/ SetIntervals
    \/ LoadAgain
    \/ AskInRepoConfigEnabled

Spec == Init /\ [][Next]_vars

(***************************************************************************)
(* Properties.                                                             *)
(***************************************************************************)
Returned == pc = "returned"
Succeeded == Returned /\ ~IsErr(ret.err) /\ ~IsNil(ret.c)
Failed == Returned /\ IsErr(ret.err)

\* the job lists as the documents give them, merged as loadConfig merges them
\* the documents of the files of the job configuration directory that are
\* job configuration: regular files named *.yaml or *.yml, not '..'-prefixed
RECURSIVE Visited(_)
Visited(i) ==
    \/ jobDir[i].under = 0
    \/ LET d == jobDir[i].under
       IN Visited(d) /\ ~HasPrefix(jobDir[d].name, Tdotdot) /\ jobDir[d].stat # "unreadable"
GivenPositions ==
    {i \in 1..Len(jobDir) : /\ Visited(i)
                            /\ jobDir[i].stat # "unreadable"
                            /\ ~HasPrefix(jobDir[i].name, Tdotdot)
                            /\ Ext(jobDir[i].name) \in {Tyaml, Tyml}
                            /\ ~jobDir[i].isDir}
RECURSIVE Pick(_, _)
Pick(seq, P) ==
    IF P = {} THEN <<>>
    ELSE LET i == CHOOSE p \in P : \A q \in P : p <= q
         IN <<seq[i]>> \o Pick(seq, P \ {i})
GivenEntries == Pick(jobDir, GivenPositions)
GivenFiles == [i \in 1..Len(GivenEntries) |-> GivenEntries[i].doc]
RECURSIVE Concat(_)
Concat(lists) ==
    IF lists = <<>> THEN <<>> ELSE Head(lists) \o Concat(Tail(lists))
\* per repository, the lists of the primary document and of the files of the
\* directory one after the other; kind is "Presubmits" or "Postsubmits"
GivenDirLists(kind) ==
    LET docs == <<prowDoc>> \o GivenFiles
    IN [repo \in UNION {DOMAIN docs[i][kind] : i \in 1..Len(docs)} |->
           Concat([i \in 1..Len(docs) |->
                      IF Has(docs[i][kind], repo) THEN docs[i][kind][repo] ELSE <<>>])]
GivenPresubmits ==
    IF jobConfig = "" THEN prowDoc.Presubmits
    ELSE IF jobConfig = "dir" THEN GivenDirLists("Presubmits")
    ELSE MergeRepoLists(prowDoc.Presubmits, jobDoc.Presubmits)
GivenPostsubmits ==
    IF jobConfig = "" THEN prowDoc.Postsubmits
    ELSE IF jobConfig = "dir" THEN GivenDirLists("Postsubmits")
    ELSE MergeRepoLists(prowDoc.Postsubmits, jobDoc.Postsubmits)
GivenPeriodics ==
    IF jobConfig = "" THEN prowDoc.Periodics
    ELSE IF jobConfig = "dir"
    THEN prowDoc.Periodics \o Concat([i \in 1..Len(GivenFiles) |-> GivenFiles[i].Periodics])
    ELSE prowDoc.Periodics \o jobDoc.Periodics

\* C1: whenever a phase of any of the four stages of Load panics, Load
\* returns at once, with a nil configuration and a non-nil error, and the
\* panic does not reach the caller.
C1_PanicContained ==
    [][pc # "returned" /\ fault = pc
          => /\ pc' = "returned"
             /\ IsNil(ret'.c)
             /\ IsErr(ret'.err)
             /\ ~ret'.panicked]_vars

\* a panic in the last stage, after the configuration was all but built, was
\* turned into an error
C1_Witness ==
    /\ Returned
    /\ fault = at.phase
    /\ StageOf(fault) = "validateJobConfig"
    /\ ret.err.kind = "panic loading config"
    /\ IsNil(ret.c)

\* C2: what Load returns is either a configuration and no error, or no
\* configuration and an error; the configuration a failing stage leaves
\* behind is never returned.
C2_AllOrNothing ==
    Returned =>
        \/ ~IsNil(ret.c) /\ ~IsErr(ret.err) /\ ret.c = c
        \/ IsNil(ret.c) /\ IsErr(ret.err)

\* a stage failed on a configuration that earlier stages had resolved in
\* part, and nothing of it was returned
C2_Witness ==
    /\ Failed
    /\ fault = "none"
    /\ ~IsNil(c)
    /\ Deref(c).AllRepos # {}
    /\ IsNil(ret.c)

\* the entries of a list that intersect an earlier entry of their name
Duplicates(js) ==
    {j \in 1..Len(js) :
        \E k \in 1..(j - 1) :
            js[k].Name = js[j].Name /\ Intersects(js[k].Brancher, js[j].Brancher)}

\* validation of a list with a duplicate ended as the claim says: with the
\* duplicate error for the first duplicate in listed order, unless an entry
\* before it failed a check of its own
DuplicateReported(js, kind) ==
    Duplicates(js) # {} =>
        LET j == CHOOSE d \in Duplicates(js) : \A e \in Duplicates(js) : d <= e
        IN /\ IsErr(ret.err)
           /\ \/ ret.err = Err(kind, js[j].Name)
              \/ /\ ret.err.kind # kind
                 /\ \E k \in 1..(j - 1) : ret.err.job = js[k].Name

\* C3: in a configuration Load returns, no list of presubmits and no list of
\* postsubmits of a repository holds two entries of one name with intersecting
\* Branchers; and validation of a list ends with the duplicated-job error at
\* the first entry, in listed order, that intersects an earlier one of its name.
C3_NoDuplicateJobs ==
    /\ Succeeded =>
          /\ \A repo \in DOMAIN Deref(ret.c).Presubmits :
                Duplicates(Deref(ret.c).Presubmits[repo]) = {}
          /\ \A repo \in DOMAIN Deref(ret.c).Postsubmits :
                Duplicates(Deref(ret.c).Postsubmits[repo]) = {}
    /\ Returned /\ fault = "none" /\ at.phase = "validatePresubmits" =>
          DuplicateReported(Deref(c).Presubmits[at.key], "duplicated presubmit job")
    /\ Returned /\ fault = "none" /\ at.phase = "validatePostsubmits" =>
          DuplicateReported(Deref(c).Postsubmits[at.key], "duplicated postsubmit job")

\* two presubmits of one name, both scoped to the same branch and the second
\* given by the job document, made Load fail with the duplicate error
C3_Witness ==
    /\ Failed
    /\ ret.err.kind = "duplicated presubmit job"
    /\ at.phase = "validatePresubmits"
    /\ Has(prowDoc.Presubmits, at.key)
    /\ Len(prowDoc.Presubmits[at.key]) = 1
    /\ LET js == Deref(c).Presubmits[at.key]
       IN /\ Len(js) = 2
          /\ js[1].Brancher.Branches = <<Ta>>
          /\ js[2].Brancher.Branches = <<Ta>>
          /\ js[1].Brancher.SkipBranches = <<>>
          /\ js[2].Brancher.SkipBranches = <<>>

\* the entries of a list of periodics that repeat an earlier name
Repeated(js) == {j \in 1..Len(js) : \E k \in 1..(j - 1) : js[k].Name = js[j].Name}

\* C4 (as amended): in a configuration Load returns the periodics have
\* pairwise distinct names; Load fails whenever two given periodics, of
\* whichever documents, share a name; and the error validatePeriodics ends
\* with is the duplicated-periodic error for the first repeated name in listed
\* order, unless an entry before it failed a check of its own.
C4_PeriodicNamesDistinct ==
    /\ Succeeded => Repeated(Deref(ret.c).Periodics) = {}
    /\ Returned /\ Repeated(GivenPeriodics) # {} => Failed
    /\ Returned /\ fault = "none" /\ at.phase = "validatePeriodics"
                /\ Repeated(Deref(c).Periodics) # {} =>
          LET js == Deref(c).Periodics
              j == CHOOSE d \in Repeated(js) : \A e \in Repeated(js) : d <= e
          IN \/ ret.err = Err("duplicated periodic job", js[j].Name)
             \/ /\ ret.err.kind # "duplicated periodic job"
                /\ \E k \in 1..(j - 1) : ret.err.job = js[k].Name

\* two periodics of one name, the first in the primary document and the
\* second in the job document, made Load fail with the duplicate error
C4_Witness ==
    /\ Failed
    /\ ret.err = Err("duplicated periodic job", Ta)
    /\ Len(prowDoc.Periodics) = 1
    /\ Len(jobDoc.Periodics) = 1
    /\ prowDoc.Periodics[1].Name = jobDoc.Periodics[1].Name

\* C4 as stated: whenever two given periodics share a name, and both
\* documents are read, the error of Load is the duplicated-periodic error.
\* It is not when the first of the two has no pod spec: Load then fails with
\* the invalid-periodic error of that entry.
C4_AsStated ==
    /\ Returned
    /\ fault = "none"
    /\ prowConfig = "file"
    /\ jobConfig \in {"", "file"}
    /\ Repeated(GivenPeriodics) # {}
    => Failed /\ ret.err.kind = "duplicated periodic job"

\* the schedule of a periodic is in order: one of cron and interval is set,
\* and an interval that is set parses as a duration
ScheduleOk(p) ==
    /\ (p.Cron = <<>>) # (p.Interval = <<>>)
    /\ p.Interval # <<>> => ParseDurationOk(p.Interval)

\* C5: in a configuration Load returns every periodic has exactly one of
\* cron and interval set, and an interval that is set parsed (its duration is
\* kept); and Load fails when a given periodic has both set, has none set, or
\* has an interval that does not parse.
C5_ExactlyOneSchedule ==
    /\ Succeeded =>
          \A i \in 1..Len(Deref(ret.c).Periodics) :
             LET p == Deref(ret.c).Periodics[i]
             IN /\ ScheduleOk(p)
                /\ p.Interval # <<>> => p.interval = Some(p.Interval)
    /\ Returned /\ (\E i \in 1..Len(GivenPeriodics) : ~ScheduleOk(GivenPeriodics[i]))
          => Failed

\* a periodic with both cron and interval, all else in order, made Load fail
\* in the schedule loop
C5_Witness ==
    /\ Failed
    /\ at.phase = "setIntervals"
    /\ ret.err.kind = "cron and interval cannot be both set"
    /\ \E i \in 1..Len(GivenPeriodics) :
          GivenPeriodics[i].Cron # <<>> /\ GivenPeriodics[i].Interval # <<>>

\* C6: in a configuration Load returns every presubmit holds its compiled
\* trigger, and that pattern matches the presubmit's rerun command; and Load
\* fails when a given presubmit has a trigger or a rerun command of its own,
\* the trigger compiles and does not match the rerun command.
C6_RerunMatchesTrigger ==
    /\ Succeeded =>
          \A repo \in DOMAIN Deref(ret.c).Presubmits :
             \A i \in 1..Len(Deref(ret.c).Presubmits[repo]) :
                LET j == Deref(ret.c).Presubmits[repo][i]
                IN /\ j.re = Some(j.Trigger)
                   /\ MatchString(Deref(j.re), j.RerunCommand)
    /\ Returned /\ (\E repo \in DOMAIN GivenPresubmits :
                      \E i \in 1..Len(GivenPresubmits[repo]) :
                         LET j == GivenPresubmits[repo][i]
                         IN /\ j.Trigger # <<>> \/ j.RerunCommand # <<>>
                            /\ Compiles(j.Trigger)
                            /\ ~MatchString(j.Trigger, j.RerunCommand))
          => Failed

\* a presubmit with the trigger /r and the rerun command /test a made Load
\* fail on the mismatch
C6_Witness ==
    /\ Failed
    /\ at.phase = "defaultPresubmits"
    /\ ret.err.kind = "rerun command does not match trigger"
    /\ \E i \in 1..Len(GivenPresubmits[at.key]) :
          /\ GivenPresubmits[at.key][i].Trigger = Tr
          /\ GivenPresubmits[at.key][i].RerunCommand = DefaultRerunCommandFor(Ta)
          /\ ret.err.job = GivenPresubmits[at.key][i].Name

\* a presubmit with exactly one of trigger and rerun command
ExactlyOneSet(j) == (j.Trigger = <<>>) # (j.RerunCommand = <<>>)

\* the presubmits as given, by repository and place in the list
GivenPresubmitPlaces ==
    {<<repo, i>> : repo \in DOMAIN GivenPresubmits, i \in 1..MaxJobs} \cap
    UNION {{<<repo, i>> : i \in 1..Len(GivenPresubmits[repo])} : repo \in DOMAIN GivenPresubmits}

\* loadConfig is over and has not failed
Loaded == ~IsNil(c) /\ at.phase \notin {"", "loadConfig"}

AnyDecorate ==
    \/ \E repo \in DOMAIN GivenPresubmits : \E i \in 1..Len(GivenPresubmits[repo]) :
          GivenPresubmits[repo][i].Decorate
    \/ \E repo \in DOMAIN GivenPostsubmits : \E i \in 1..Len(GivenPostsubmits[repo]) :
          GivenPostsubmits[repo][i].Decorate
    \/ \E i \in 1..Len(GivenPeriodics) : GivenPeriodics[i].Decorate

\* the default decoration map as given, the legacy single default, if given,
\* installed as its '*' entry
GivenDefaults ==
    IF IsNil(prowDoc.Plank.DefaultDecorationConfig)
    THEN prowDoc.Plank.DefaultDecorationConfigs
    ELSE (Tstar :> prowDoc.Plank.DefaultDecorationConfig)

DecorationErrors ==
    {"both default_decoration_config and default_decoration_configs are specified",
     "both default_decoration_config and default_decoration_configs['*'] are missing",
     "default_decoration_configs['*'] is missing",
     "decoration config validation error"}

\* C8: when some job requests decoration and the default decoration map,
\* after the legacy default is installed as '*', has no '*' entry or has one
\* that does not validate, Load fails: and, once the documents are loaded, it
\* fails in the decoration part of finalizeJobConfig.
C8_WildcardDefaultRequired ==
    /\ Returned /\ AnyDecorate
                /\ (~Has(GivenDefaults, Tstar) \/ IsErr(DecorationValidate(GivenDefaults[Tstar])))
          => Failed
    /\ Returned /\ AnyDecorate /\ fault = "none" /\ at.phase # "loadConfig"
                /\ (~Has(GivenDefaults, Tstar) \/ IsErr(DecorationValidate(GivenDefaults[Tstar])))
          => at.phase = "finalizeDecoration" /\ ret.err.kind \in DecorationErrors

\* a periodic requested decoration, the default map held an entry for an
\* organization and none for '*', and Load failed for the missing '*'
C8_Witness ==
    /\ Failed
    /\ at.phase = "finalizeDecoration"
    /\ ret.err.kind = "default_decoration_configs['*'] is missing"
    /\ IsNil(prowDoc.Plank.DefaultDecorationConfig)
    /\ DOMAIN prowDoc.Plank.DefaultDecorationConfigs = {OrgO}
    /\ Len(GivenPeriodics) = 1
    /\ GivenPeriodics[1].Decorate

\* C9: when no job requests decoration, Load never fails for the default
\* decoration configuration, whatever the default map holds, and every job
\* keeps the decoration configuration it was given.
C9_NoDecorationNoDefaulting ==
    ~AnyDecorate =>
       /\ ret.err.kind \notin DecorationErrors
       /\ Returned /\ fault = "none" => at.phase # "finalizeDecoration"
       /\ Loaded =>
             /\ \A repo \in DOMAIN GivenPresubmits : \A i \in 1..Len(GivenPresubmits[repo]) :
                   Deref(c).Presubmits[repo][i].DecorationConfig
                      = GivenPresubmits[repo][i].DecorationConfig
             /\ \A repo \in DOMAIN GivenPostsubmits : \A i \in 1..Len(GivenPostsubmits[repo]) :
                   Deref(c).Postsubmits[repo][i].DecorationConfig
                      = GivenPostsubmits[repo][i].DecorationConfig
             /\ \A i \in 1..Len(GivenPeriodics) :
                   Deref(c).Periodics[i].DecorationConfig = GivenPeriodics[i].DecorationConfig
             /\ Deref(c).Plank.DefaultDecorationConfigs = prowDoc.Plank.DefaultDecorationConfigs

\* no job requested decoration, there was no default at all, and
\* finalizeJobConfig ran to its end, a presubmit keeping the decoration
\* configuration it was given
C9_Witness ==
    /\ pc = "validateComponentConfig"
    /\ ~AnyDecorate
    /\ IsNil(prowDoc.Plank.DefaultDecorationConfig)
    /\ prowDoc.Plank.DefaultDecorationConfigs = EmptyMap
    /\ \E repo \in DOMAIN GivenPresubmits :
          /\ Len(GivenPresubmits[repo]) = 1
          /\ GivenPresubmits[repo][1].DecorationConfig = DCJob
          /\ Deref(c).Presubmits[repo][1].DecorationConfig = DCJob

\* org is the text of repo before its first "/"
IsOrgOf(org, repo) ==
    /\ "/" \notin Range(org)
    /\ \/ org = repo
       \/ Len(repo) > Len(org) /\ SubSeq(repo, 1, Len(org) + 1) = org \o Tslash

\* the entry of the default map m that is the most specific for repo
MostSpecific(m, repo) ==
    IF repo \in DOMAIN m THEN m[repo]
    ELSE IF \E org \in DOMAIN m \ {Tstar} : IsOrgOf(org, repo)
    THEN m[CHOOSE org \in DOMAIN m \ {Tstar} : IsOrgOf(org, repo)]
    ELSE m[Tstar]

\* the phases that follow the defaulting of presubmits and postsubmits
PhasesAfterDefaulting ==
    {"defaultPeriodics", "validateComponentConfig", "validatePresubmits",
     "validatePostsubmits", "validatePeriodics", "setIntervals"}

\* C10: the default a decorated presubmit or postsubmit of a repository is
\* given comes from the entry of the repository if there is one, otherwise
\* from the entry of its organization if there is one, otherwise from the '*'
\* entry: a field the job and the chosen entry leave unset comes from '*'.
C10_MostSpecificFirst ==
    Loaded /\ Has(Deref(c).Plank.DefaultDecorationConfigs, Tstar) =>
       LET m == Deref(c).Plank.DefaultDecorationConfigs
           chosen(g, repo) ==
              ApplyDefault(g.DecorationConfig, ApplyDefault(MostSpecific(m, repo), m[Tstar]))
       IN /\ \A repo \in DOMAIN GivenPresubmits \cap Deref(c).AllRepos :
                \A i \in 1..Len(GivenPresubmits[repo]) :
                   GivenPresubmits[repo][i].Decorate =>
                      Deref(c).Presubmits[repo][i].DecorationConfig
                         = chosen(GivenPresubmits[repo][i], repo)
          /\ pc \in PhasesAfterDefaulting \/ Succeeded =>
                \A repo \in DOMAIN GivenPostsubmits :
                   \A i \in 1..Len(GivenPostsubmits[repo]) :
                      GivenPostsubmits[repo][i].Decorate =>
                         Deref(c).Postsubmits[repo][i].DecorationConfig
                            = chosen(GivenPostsubmits[repo][i], repo)

\* the default map held entries for '*', for the organization and for the
\* repository of a decorated presubmit with no configuration of its own, and
\* the presubmit was given the repository's entry, completed from '*'
C10_Witness ==
    /\ Loaded
    /\ RepoOR \in Deref(c).AllRepos
    /\ DOMAIN Deref(c).Plank.DefaultDecorationConfigs = {Tstar, OrgO, RepoOR}
    /\ RepoOR \in DOMAIN GivenPresubmits
    /\ Len(GivenPresubmits[RepoOR]) = 1
    /\ GivenPresubmits[RepoOR][1].Decorate
    /\ IsNil(GivenPresubmits[RepoOR][1].DecorationConfig)
    /\ Deref(c).Presubmits[RepoOR][1].DecorationConfig = DC(3, 1, 1)

\* a decorated presubmit with no decoration configuration of its own, of a
\* repository whose organization has an entry in the default map, next to
\* '*' and nothing else, has been through defaulting: the repository, the
\* organization and the configuration the presubmit was given
OrgFallbacks ==
    IF ~Loaded THEN {}
    ELSE LET m == Deref(c).Plank.DefaultDecorationConfigs
         IN {<<repo, org, Deref(c).Presubmits[repo][1].DecorationConfig>> :
                <<repo, org>> \in
                   {y \in (DOMAIN GivenPresubmits \cap Deref(c).AllRepos) \X (DOMAIN m) :
                       /\ DOMAIN m = {y[2], Tstar}
                       /\ y[2] # Tstar
                       /\ IsOrgOf(y[2], y[1])
                       /\ Len(GivenPresubmits[y[1]]) = 1
                       /\ GivenPresubmits[y[1]][1].Decorate
                       /\ IsNil(GivenPresubmits[y[1]][1].DecorationConfig)}}

\* C11 (as amended): with only an entry for the organization and an entry for
\* '*' in the default map, the default resolved for 'org/repo' is the entry of
\* the organization completed from '*': every field the organization's entry
\* sets, and for every other field the value of '*'.
C11_OrgFallbackMergesWildcard ==
    \A x \in OrgFallbacks :
       LET m == Deref(c).Plank.DefaultDecorationConfigs
       IN \A f \in DCFields :
             Deref(x[3])[f] = IF Deref(m[x[2]])[f] # 0 THEN Deref(m[x[2]])[f]
                              ELSE Deref(m[Tstar])[f]

\* the organization's entry left the grace period unset, and the presubmit
\* got the organization's timeout and images and the grace period of '*'
C11_Witness ==
    \E x \in OrgFallbacks :
       /\ x[1] = RepoOR
       /\ Deref(c).Plank.DefaultDecorationConfigs[x[2]] = DCOrg
       /\ Deref(c).Plank.DefaultDecorationConfigs[Tstar] = DCStar
       /\ x[3] = DC(2, 1, 2)

\* C11 as stated: the default resolved is equal to the organization's entry.
\* It is not when that entry leaves unset a field that '*' sets.
C11_AsStated ==
    \A x \in OrgFallbacks : x[3] = Deref(c).Plank.DefaultDecorationConfigs[x[2]]

\* res holds every decoration field, with the value own sets for it if own
\* sets one and the value of def otherwise
FieldMerged(own, def, res) ==
    /\ ~IsNil(res)
    /\ DOMAIN Deref(res) = DCFields
    /\ \A f \in DCFields :
          Deref(res)[f] = IF ~IsNil(own) /\ Deref(own)[f] # 0 THEN Deref(own)[f]
                          ELSE Deref(def)[f]

DefaultedPeriodics ==
    IF Loaded /\ ~(Failed /\ at.phase = "finalizeDecoration")
    THEN {i \in 1..Len(GivenPeriodics) : GivenPeriodics[i].Decorate}
    ELSE {}

\* C13: the default of a decorated periodic is the one resolved for the
\* 'org/repo' of the first of its extra refs, and a decorated periodic with no
\* extra refs is given the '*' entry alone, whatever other keys the default
\* map holds.
C13_PeriodicDefault ==
    \A i \in DefaultedPeriodics :
       LET g == GivenPeriodics[i]
           m == Deref(c).Plank.DefaultDecorationConfigs
           res == Deref(c).Periodics[i].DecorationConfig
       IN IF Len(g.ExtraRefs) > 0
          THEN FieldMerged(g.DecorationConfig,
                           GetDefaultDecorationConfigs(Deref(c).Plank,
                               g.ExtraRefs[1].Org \o Tslash \o g.ExtraRefs[1].Repo),
                           res)
          ELSE FieldMerged(g.DecorationConfig, m[Tstar], res)

\* loadConfig has just merged the primary document and the files of the job
\* configuration directory
MergedFromDir ==
    /\ jobConfig = "dir"
    /\ at.phase = "loadConfig"
    /\ ~IsNil(c)

\* the documents that were merged, in the order of the merge, their jobs
\* tagged with the path they were read from
MergedDocs ==
    <<SetSourcePath(prowDoc, "config.yaml")>> \o
    [i \in 1..Len(GivenEntries) |-> SetSourcePath(GivenEntries[i].doc, GivenEntries[i].name)]

\* C14: for presubmits and for postsubmits, the merged configuration holds a
\* list for exactly the repositories some document has a list for, and the
\* list of a repository is the lists the documents have for it one after the
\* other in the order of the merge, none replaced; and with three documents
\* A, B, C, merging A with B and the result with C gives the same lists as
\* merging A with the result of merging B with C, the lists Load holds.
C14_MergeAdditive ==
    MergedFromDir =>
       \A kind \in {"Presubmits", "Postsubmits"} :
          LET docs == MergedDocs
              part(i, repo) == IF Has(docs[i][kind], repo) THEN docs[i][kind][repo] ELSE <<>>
              merge(x, y) == mergeJobConfigs(x, y).jc
          IN /\ DOMAIN Deref(c)[kind] = UNION {DOMAIN docs[i][kind] : i \in 1..Len(docs)}
             /\ \A repo \in DOMAIN Deref(c)[kind] :
                   Deref(c)[kind][repo] = Concat([i \in 1..Len(docs) |-> part(i, repo)])
             /\ Len(docs) = 3 =>
                   /\ merge(merge(docs[1], docs[2]), docs[3])[kind]
                         = merge(docs[1], merge(docs[2], docs[3]))[kind]
                   /\ merge(merge(docs[1], docs[2]), docs[3])[kind] = Deref(c)[kind]

\* the primary document and the two files of the directory each had a
\* presubmit for the same repository, and the merged list has the three in
\* the order primary, first file, second file
C14_Witness ==
    /\ MergedFromDir
    /\ Len(GivenEntries) = 2
    /\ RepoOR \in DOMAIN Deref(c).Presubmits
    /\ Len(Deref(c).Presubmits[RepoOR]) = 3
    /\ [i \in 1..3 |-> Deref(c).Presubmits[RepoOR][i].Name] = <<Ta, Tb, Tc>>

\* C13, for a default map with no entry under the empty key: the default of a
\* decorated periodic is the one resolved for the 'org/repo' of the first of
\* its extra refs, and the '*' entry alone without extra refs.
C13_PeriodicDefaultNamedKeys ==
    <<>> \notin DOMAIN prowDoc.Plank.DefaultDecorationConfigs =>
       \A i \in DefaultedPeriodics :
          LET g == GivenPeriodics[i]
              res == Deref(c).Periodics[i].DecorationConfig
          IN FieldMerged(g.DecorationConfig,
                         IF Len(g.ExtraRefs) > 0
                         THEN GetDefaultDecorationConfigs(Deref(c).Plank,
                                  g.ExtraRefs[1].Org \o Tslash \o g.ExtraRefs[1].Repo)
                         ELSE Deref(c).Plank.DefaultDecorationConfigs[Tstar],
                         res)

\* two presets of the list have a label in common, with the same value
SharedPair(presets) ==
    \E i, j \in 1..Len(presets) :
       /\ i < j
       /\ \E l \in DOMAIN presets[i].Labels \cap DOMAIN presets[j].Labels :
             presets[i].Labels[l] = presets[j].Labels[l]

\* C15: no configuration that Load returns successfully holds two presets
\* with a label:value pair in common, whether the presets come from the
\* primary document, from the job configuration or from both, and whether or
\* not a job configuration path is given.
C15_NoSharedPresetPair ==
    Succeeded => ~SharedPair(Deref(ret.c).Presets)

\* C15, when a job configuration path is given: Load fails when two of the
\* presets of the primary document and the job configuration together have a
\* label:value pair in common.
C15_NoSharedPresetPairWhenMerged ==
    Succeeded /\ jobConfig # "" => ~SharedPair(Deref(ret.c).Presets)

\* the phases that follow the defaulting of postsubmits, and of periodics
PostsubmitsDefaulted ==
    ~IsNil(c) /\ at.phase \in {"defaultPeriodics", "validateComponentConfig", "validatePresubmits",
                               "validatePostsubmits", "validatePeriodics", "setIntervals"}
PeriodicsDefaulted == PostsubmitsDefaulted

\* the jobs that have been through defaulting as <<given, defaulted, kind>>
DefaultedJobs ==
    IF ~Loaded THEN {}
    ELSE {<<GivenPresubmits[repo][i], Deref(c).Presubmits[repo][i], "presubmit">> :
             <<repo, i>> \in {pl \in GivenPresubmitPlaces : pl[1] \in Deref(c).AllRepos}}
         \cup
         (IF PostsubmitsDefaulted
          THEN UNION {{<<GivenPostsubmits[repo][i], Deref(c).Postsubmits[repo][i], "postsubmit">> :
                          i \in 1..Len(GivenPostsubmits[repo])} : repo \in DOMAIN GivenPostsubmits}
               \cup {<<GivenPeriodics[i], Deref(c).Periodics[i], "periodic">> :
                        i \in 1..Len(GivenPeriodics)}
          ELSE {})

\* C16: after defaulting, a job's agent is the one it was given, kubernetes if
\* it was given none; its namespace the one it was given, the pod namespace if
\* it was given none or an empty one; its cluster the one it was given,
\* "default" if it was given none; and the context of a presubmit or
\* postsubmit the one it was given, the job's name if it was given none.
C16_DefaultsFillUnsetOnly ==
    \A x \in DefaultedJobs :
       LET g == x[1]
           d == x[2]
       IN /\ d.Agent = IF g.Agent = "" THEN "kubernetes" ELSE g.Agent
          /\ d.Namespace = IF g.Namespace \in {Nil, Some("")} THEN Some(Deref(c).PodNamespace)
                           ELSE g.Namespace
          /\ d.Cluster = IF g.Cluster = "" THEN "default" ELSE g.Cluster
          /\ d.Context = IF g.Context = <<>> /\ x[3] # "periodic" THEN g.Name ELSE g.Context

\* a postsubmit given no agent, a namespace of its own, a cluster and a
\* context got the kubernetes agent and kept the other three
C16_Witness ==
    \E x \in DefaultedJobs :
       /\ x[3] = "postsubmit"
       /\ x[1].Agent = "" /\ x[2].Agent = "kubernetes"
       /\ x[1].Namespace = Some("other") /\ x[2].Namespace = Some("other")
       /\ x[1].Cluster = "build" /\ x[2].Cluster = "build"
       /\ x[1].Context = <<"x">> /\ x[2].Context = <<"x">>

\* C17: defaulting once more the jobs that have been through defaulting
\* changes no field of any of them, for the defaulting of the job base and
\* for the defaulting of presubmits, of postsubmits and of periodics.
C17_DefaultingIdempotent ==
    \A x \in DefaultedJobs :
       LET cfg == Deref(c)
           d == x[2]
       IN /\ defaultJobBase(cfg, d) = d
          /\ x[3] = "presubmit" => defaultPresubmitFields(cfg, <<d>>) = <<d>>
          /\ x[3] = "postsubmit" => defaultPostsubmitFields(cfg, <<d>>) = <<d>>
          /\ x[3] = "periodic" => defaultPeriodicFields(cfg, <<d>>) = <<d>>

\* a presubmit given no agent, namespace, cluster, context, trigger or rerun
\* command has been through defaulting, which filled the six
C17_Witness ==
    \E x \in DefaultedJobs :
       /\ x[3] = "presubmit"
       /\ x[1].Agent = "" /\ IsNil(x[1].Namespace) /\ x[1].Cluster = ""
       /\ x[1].Context = <<>> /\ x[1].Trigger = <<>> /\ x[1].RerunCommand = <<>>
       /\ x[2].Agent = "kubernetes" /\ x[2].Namespace = Some("default")
       /\ x[2].Cluster = "default" /\ x[2].Context = x[1].Name
       /\ x[2].Trigger # <<>> /\ x[2].RerunCommand # <<>>

\* a presubmit as a document gives it, with a name jobNameRegex accepts and
\* neither trigger nor rerun command
PlainPresubmit(g) ==
    /\ Len(g.Name) > 0
    /\ \A k \in 1..Len(g.Name) : g.Name[k] \in JobNameChars
    /\ g.Trigger = <<>>
    /\ g.RerunCommand = <<>>

\* C18: for every name n that jobNameRegex accepts, the default trigger of n
\* matches the default rerun command of n; a presubmit of such a name with
\* neither set is given the two, its trigger compiled, and Load does not fail
\* on the rerun command of a repository whose presubmits are all such.
C18_DefaultTriggerMatchesRerun ==
    /\ \A repo \in DOMAIN GivenPresubmits : \A i \in 1..Len(GivenPresubmits[repo]) :
          PlainPresubmit(GivenPresubmits[repo][i]) =>
             MatchString(DefaultTriggerFor(GivenPresubmits[repo][i].Name),
                         DefaultRerunCommandFor(GivenPresubmits[repo][i].Name))
    /\ \A x \in DefaultedJobs :
          x[3] = "presubmit" /\ PlainPresubmit(x[1]) =>
             /\ x[2].RerunCommand = <<"/", "t", "e", "s", "t", " ">> \o x[1].Name
             /\ x[2].re = Some(x[2].Trigger)
             /\ MatchString(x[2].Trigger, x[2].RerunCommand)
    /\ Failed /\ at.phase = "defaultPresubmits"
          /\ (\A i \in 1..Len(GivenPresubmits[at.key]) : PlainPresubmit(GivenPresubmits[at.key][i]))
          => ret.err.kind # "rerun command does not match trigger"

\* a presubmit named with a dot and a dash, and neither trigger nor rerun
\* command, has been through defaulting and compilation
C18_Witness ==
    \E x \in DefaultedJobs :
       /\ x[3] = "presubmit"
       /\ PlainPresubmit(x[1])
       /\ x[1].Name = <<".", "-">>
       /\ x[2].RerunCommand = <<"/", "t", "e", "s", "t", " ", ".", "-">>
       /\ ~IsNil(x[2].re)

\* the jobs of the configuration Load returned, of the three kinds
ReturnedJobs ==
    IF ~Succeeded THEN {}
    ELSE LET cfg == Deref(ret.c)
         IN UNION {Range(cfg.Presubmits[repo]) : repo \in DOMAIN cfg.Presubmits}
            \cup UNION {Range(cfg.Postsubmits[repo]) : repo \in DOMAIN cfg.Postsubmits}
            \cup Range(cfg.Periodics)

\* C19: in a configuration Load returned, every job of one of the four known
\* agents has a pod spec exactly when its agent is kubernetes, a decoration
\* configuration only with the agent kubernetes or knative-build, eviction
\* errors only with the agent kubernetes, and a namespace other than the pod
\* namespace only with the agent knative-build or tekton.
C19_AgentRules ==
    \A j \in ReturnedJobs :
       j.Agent \in {"kubernetes", "knative-build", "jenkins", "tekton"} =>
          /\ ~IsNil(j.Spec) <=> j.Agent = "kubernetes"
          /\ ~IsNil(j.DecorationConfig) => j.Agent \in {"kubernetes", "knative-build"}
          /\ j.ErrorOnEviction => j.Agent = "kubernetes"
          /\ j.Namespace # Some(Deref(ret.c).PodNamespace)
                => j.Agent \in {"knative-build", "tekton"}

\* Load returned a configuration with a knative-build job without a pod spec,
\* with a decoration configuration and a namespace of its own
C19_Witness ==
    \E j \in ReturnedJobs :
       /\ j.Agent = "knative-build"
       /\ IsNil(j.Spec)
       /\ ~IsNil(j.DecorationConfig)
       /\ j.Namespace = Some("other")

\* the rerun authorization of job j lets anyone rerun it and lists users,
\* team IDs or team slugs all the same
AnyoneAndListed(j) ==
    /\ ~IsNil(j.RerunAuthConfig)
    /\ Deref(j.RerunAuthConfig).AllowAnyone
    /\ \/ Deref(j.RerunAuthConfig).GitHubUsers # <<>>
       \/ Deref(j.RerunAuthConfig).GitHubTeamIDs # <<>>
       \/ Deref(j.RerunAuthConfig).GitHubTeamSlugs # <<>>

\* C20: no configuration Load returned holds a job, of any kind and agent,
\* with or without a pod spec, whose rerun authorization lets anyone rerun it
\* and lists users, team IDs or team slugs.
C20_NoAnyoneAndListed ==
    \A j \in ReturnedJobs : ~AnyoneAndListed(j)

\* C20, for the jobs that have a pod spec: no configuration Load returned
\* holds one whose rerun authorization lets anyone rerun it and lists users,
\* team IDs or team slugs.
C20_NoAnyoneAndListedWithSpec ==
    \A j \in ReturnedJobs : ~IsNil(j.Spec) => ~AnyoneAndListed(j)

\* C21: a Load of the same documents gives what the Load before gave: the
\* same configuration, or the same error for the same job, also when several
\* repositories hold an invalid job.
C21_Deterministic ==
    Returned /\ ~IsNil(prev) => ret = Deref(prev)

\* a returned configuration without its lenses
LensesAside(rc) ==
    IF IsNil(rc) THEN rc ELSE Some([Deref(rc) EXCEPT !.Deck.Spyglass.Lenses = <<>>])

\* C21, for what does not depend on the order in which the keys of a map are
\* visited: a Load of the same documents fails exactly when the Load before
\* failed, and when it succeeds returns the same configuration, the order of
\* the lenses migrated from the viewers aside.
C21_SameVerdict ==
    Returned /\ ~IsNil(prev) =>
       /\ IsErr(ret.err) = IsErr(Deref(prev).err)
       /\ LensesAside(ret.c) = LensesAside(Deref(prev).c)
       /\ ret.panicked = Deref(prev).panicked

\* the value the Enabled map of the loaded configuration stores for key k,
\* as a sequence: empty when it stores none
StoredFor(k) ==
    LET enabled == prowDoc.InRepoConfig.Enabled
    IN IF k \in DOMAIN enabled /\ enabled[k] # Nil THEN enabled[k] ELSE <<>>

\* the value of the narrowest entry that matches the identifier asked about,
\* FALSE without one
NarrowestMatch ==
    LET id == Deref(asked).identifier
        org == BeforeSlash(id)
        isOrgRepo == Len(SelectSeq(id, LAMBDA ch : ch = "/")) = 1
    IN IF StoredFor(id) # <<>> THEN StoredFor(id)[1]
       ELSE IF isOrgRepo /\ StoredFor(org) # <<>> THEN StoredFor(org)[1]
       ELSE IF StoredFor(Tstar) # <<>> THEN StoredFor(Tstar)[1]
       ELSE FALSE

RepeatedBasenames ==
    {j \in GivenPositions : \E i \in GivenPositions : i < j /\ jobDir[i].name = jobDir[j].name}

\* reading or merging a file before position j fails
FailsBefore(j) ==
    \E k \in GivenPositions :
       /\ k < j
       /\ \/ jobDir[k].stat = "malformed"
          \/ SharedPair(Concat([i \in 1..k |->
                                   IF i \in GivenPositions THEN jobDir[i].doc.Presets ELSE <<>>]))

\* loadConfig has just run on a readable primary document and a job
\* configuration directory
WalkedDir ==
    /\ jobConfig = "dir"
    /\ at.phase = "loadConfig"
    /\ fault = "none"

\* C23 (as amended): when two files that the walk of the job configuration
\* directory takes for job configuration, anywhere in the tree, have the same
\* base name, ReadJobConfig fails and returns an empty job configuration, and
\* Load fails with it: with the duplicated-basename error, unless a file that
\* comes before the second of the two in the walk cannot be parsed or merged,
\* in which case with the error of that file.  Files whose name starts with
\* '..' and files under directories whose name starts with '..' are passed
\* over: the duplicated-basename error is returned only for files the walk
\* takes.
C23_DuplicatedBasename ==
    WalkedDir =>
       LET r == ReadJobConfig(jobConfig, jobDoc, jobDir)
           first == CHOOSE j \in RepeatedBasenames : \A k \in RepeatedBasenames : j <= k
       IN /\ IsErr(r.err) => r.jc = NoJobs
          /\ RepeatedBasenames # {} =>
                /\ Failed
                /\ IsNil(ret.c)
                /\ ret.err = r.err
                /\ IF FailsBefore(first)
                   THEN ret.err.kind # "duplicated basename is not allowed"
                   ELSE ret.err.kind = "duplicated basename is not allowed"
          /\ RepeatedBasenames = {} => ret.err.kind # "duplicated basename is not allowed"

\* a.yaml in the directory and a.yaml in its subdirectory sub made Load fail
\* with the duplicated-basename error
C23_Witness ==
    /\ WalkedDir
    /\ Failed
    /\ ret.err.kind = "duplicated basename is not allowed"
    /\ \E j \in RepeatedBasenames :
          /\ jobDir[j].under # 0
          /\ jobDir[jobDir[j].under].name = Tsub
          /\ jobDir[j].name = TaYaml

\* C23 as stated: two files of the same base name make ReadJobConfig fail
\* with the duplicated-basename error.  They do not when a file between them
\* in the walk cannot be parsed: the walk ends there, with that error.
C23_AsStated ==
    WalkedDir /\ RepeatedBasenames # {} =>
       Failed /\ ret.err.kind = "duplicated basename is not allowed"

\* the inclusion set of a list of branch patterns: the branch names one of
\* the patterns matches
Included(branches) ==
    {b \in BranchNames : \E i \in 1..Len(branches) : MatchString(branches[i], b)}

\* the pairs of entries of a list that carry one name
SameNamePairs(js) ==
    {pr \in (1..Len(js)) \X (1..Len(js)) : pr[1] < pr[2] /\ js[pr[1]].Name = js[pr[2]].Name}

\* a Brancher with inclusion patterns that all compile, and no exclusions
InclusionsOnly(br) ==
    /\ Len(br.Branches) > 0
    /\ \A i \in 1..Len(br.Branches) : Compiles(br.Branches[i])
    /\ br.SkipBranches = <<>>

DisjointPair(js, pr) ==
    /\ InclusionsOnly(js[pr[1]].Brancher)
    /\ InclusionsOnly(js[pr[2]].Brancher)
    /\ Included(js[pr[1]].Brancher.Branches) \cap Included(js[pr[2]].Brancher.Branches) = {}

IdenticalPair(js, pr) ==
    /\ InclusionsOnly(js[pr[1]].Brancher)
    /\ InclusionsOnly(js[pr[2]].Brancher)
    /\ Included(js[pr[1]].Brancher.Branches) = Included(js[pr[2]].Brancher.Branches)
    /\ Included(js[pr[1]].Brancher.Branches) # {}

\* the Branchers of a list, once compiled, intersect as the claim says
IntersectsAsIncluded(js) ==
    \A pr \in SameNamePairs(js) :
       (~IsNil(js[pr[1]].Brancher.re) /\ ~IsNil(js[pr[2]].Brancher.re)) =>
          /\ DisjointPair(js, pr) => ~Intersects(js[pr[1]].Brancher, js[pr[2]].Brancher)
          /\ IdenticalPair(js, pr) => Intersects(js[pr[1]].Brancher, js[pr[2]].Brancher)

\* C24: of two Branchers without exclusion patterns, those whose inclusion
\* sets (the branch names their inclusion patterns match) are disjoint do not
\* intersect, and those whose inclusion sets are identical and not empty do.
\* So Load does not succeed when a list holds two jobs of one name with
\* identical inclusion sets, and validation of a list does not end with the
\* duplicated-job error when all its jobs of one name have pairwise disjoint
\* inclusion sets.
C24_BrancherIntersection ==
    /\ ~IsNil(c) =>
          /\ \A repo \in DOMAIN Deref(c).Presubmits :
                IntersectsAsIncluded(Deref(c).Presubmits[repo])
          /\ \A repo \in DOMAIN Deref(c).Postsubmits :
                IntersectsAsIncluded(Deref(c).Postsubmits[repo])
    /\ Returned =>
          /\ \A repo \in DOMAIN GivenPresubmits :
                (\E pr \in SameNamePairs(GivenPresubmits[repo]) :
                    IdenticalPair(GivenPresubmits[repo], pr)) => Failed
          /\ \A repo \in DOMAIN GivenPostsubmits :
                (\E pr \in SameNamePairs(GivenPostsubmits[repo]) :
                    IdenticalPair(GivenPostsubmits[repo], pr)) => Failed
    /\ Returned /\ fault = "none" /\ at.phase = "validatePresubmits" =>
          LET js == Deref(c).Presubmits[at.key]
          IN (\A pr \in SameNamePairs(js) : DisjointPair(js, pr))
                => ret.err.kind # "duplicated presubmit job"
    /\ Returned /\ fault = "none" /\ at.phase = "validatePostsubmits" =>
          LET js == Deref(c).Postsubmits[at.key]
          IN (\A pr \in SameNamePairs(js) : DisjointPair(js, pr))
                => ret.err.kind # "duplicated postsubmit job"

\* two presubmits of one name were loaded, one for branch a alone and one for
\* branch b alone
C24_Witness ==
    /\ Succeeded
    /\ Has(Deref(ret.c).Presubmits, RepoOR)
    /\ LET js == Deref(ret.c).Presubmits[RepoOR]
       IN /\ Len(js) = 2
          /\ js[1].Name = js[2].Name
          /\ js[1].Brancher.Branches = <<OnlyA>>
          /\ js[2].Brancher.Branches = <<OnlyB>>

\* two presubmits of one name whose inclusion patterns are the same two in
\* different orders made Load fail as duplicates
SameBranchesRejected ==
    /\ Failed
    /\ ret.err.kind = "duplicated presubmit job"
    /\ Has(prowDoc.Presubmits, RepoOR)
    /\ LET js == prowDoc.Presubmits[RepoOR]
       IN /\ Len(js) = 2
          /\ js[1].Brancher.Branches = <<OnlyA, OnlyB>>
          /\ js[2].Brancher.Branches = <<OnlyB, OnlyA>>

\* the place of a phase in the order of Load, "returned" after the last
PhaseIndex(phase) ==
    IF phase = "returned" THEN Len(Phases) + 1
    ELSE CHOOSE k \in 1..Len(Phases) : Phases[k] = phase

\* the base fields of a job are set
BaseDefaulted(j) == j.Agent # "" /\ ~IsNil(j.Namespace) /\ j.Cluster # ""

\* the branch and change patterns of a job are compiled
FiltersCompiled(j) ==
    /\ Len(j.Brancher.Branches) > 0 => ~IsNil(j.Brancher.re)
    /\ Len(j.Brancher.SkipBranches) > 0 => ~IsNil(j.Brancher.reSkip)
    /\ j.RunIfChanged # <<>> => ~IsNil(j.reChanges)

\* the context of a job is set: its own, or its name
ContextDefaulted(j) == j.Context # <<>> \/ j.Name = <<>>

\* every job of the configuration has been defaulted and compiled
AllDefaultedAndCompiled(cfg) ==
    /\ \A repo \in DOMAIN cfg.Presubmits :
          /\ repo \in cfg.AllRepos
          /\ \A i \in 1..Len(cfg.Presubmits[repo]) :
                LET j == cfg.Presubmits[repo][i]
                IN /\ BaseDefaulted(j)
                   /\ ContextDefaulted(j)
                   /\ j.re = Some(j.Trigger)
                   /\ FiltersCompiled(j)
    /\ \A repo \in DOMAIN cfg.Postsubmits :
          /\ repo \in cfg.AllRepos
          /\ \A i \in 1..Len(cfg.Postsubmits[repo]) :
                LET j == cfg.Postsubmits[repo][i]
                IN BaseDefaulted(j) /\ ContextDefaulted(j) /\ FiltersCompiled(j)
    /\ \A i \in 1..Len(cfg.Periodics) : BaseDefaulted(cfg.Periodics[i])

\* the stages before the one the last phase belongs to have succeeded
EarlierStagesSucceeded ==
    /\ at.phase \notin {"", "loadConfig"} =>
          ~IsErr(loadConfig(prowConfig, prowDoc, jobConfig, jobDoc, jobDir).err)
    /\ ~IsNil(c) /\ StageOf(at.phase) \in {"validateComponentConfig", "validateJobConfig"}
       /\ at.phase # ""
          => AllDefaultedAndCompiled(Deref(c))
    /\ ~IsNil(c) /\ StageOf(at.phase) = "validateJobConfig" /\ at.phase # ""
          => ~IsErr(validateComponentConfig(Deref(c)).err)

\* a step of Load runs the phase that is due and goes on, in the order of the
\* phases, only without an error; once Load has returned nothing runs but a
\* new call
InOrder ==
    /\ pc # "returned" =>
          /\ at'.phase = pc
          /\ PhaseIndex(pc') >= PhaseIndex(pc)
          /\ StageOf(pc) = "validateJobConfig" /\ pc' # "returned"
                => StageOf(pc') = "validateJobConfig"
          /\ pc' # "returned" => ~IsErr(ret'.err) /\ IsNil(ret'.c)
          /\ IsErr(ret'.err) => pc' = "returned" /\ IsNil(ret'.c)
    /\ pc = "returned" =>
          \/ at' = at /\ pc' = pc /\ ret' = ret /\ c' = c
          \/ pc' = Phases[1] /\ c' = Nil /\ ret' = NoRet /\ at'.phase = ""

\* C26: Load runs its stages in one order: loading and merging, then
\* defaulting and compilation, then validation of the component
\* configuration, then validation of the jobs.  A phase runs only when every
\* stage before it has succeeded: when a validation phase has run, every job
\* has been defaulted and compiled and the component configuration is valid.
\* After the first failure Load returns and no later phase runs.
C26_LinearPipeline ==
    /\ []EarlierStagesSucceeded
    /\ [][InOrder]_vars

\* job validation failed after defaulting, compilation and component
\* validation had succeeded for two repositories
C26_Witness ==
    /\ Failed
    /\ fault = "none"
    /\ StageOf(at.phase) = "validateJobConfig"
    /\ ~IsNil(c)
    /\ Cardinality(Deref(c).AllRepos) >= 2

\* the errors of the rules of validateAgent
AgentRuleErrors ==
    {"job specs require agent", "kubernetes jobs require a spec", "decoration requires agent",
     "error_on_eviction only applies to agent", "failed to default namespace",
     "namespace customization requires agent"}

\* every job of the configuration, of the three kinds, satisfies P
EveryJob(cfg, P(_)) ==
    /\ \A repo \in DOMAIN cfg.Presubmits :
          \A i \in 1..Len(cfg.Presubmits[repo]) : P(cfg.Presubmits[repo][i])
    /\ \A repo \in DOMAIN cfg.Postsubmits :
          \A i \in 1..Len(cfg.Postsubmits[repo]) : P(cfg.Postsubmits[repo][i])
    /\ \A i \in 1..Len(cfg.Periodics) : P(cfg.Periodics[i])

\* the name, the concurrency limit, the pod spec and the labels are in order
OtherChecksPass(j) ==
    /\ Len(j.Name) > 0 /\ Range(j.Name) \subseteq JobNameChars
    /\ j.MaxConcurrency >= 0
    /\ ~IsNil(j.Spec) => /\ Len(Deref(j.Spec).InitContainers) = 0
                         /\ Len(Deref(j.Spec).Containers) = 1
    /\ \A l \in DOMAIN j.Labels : QualifiedNameOk(l) /\ LabelValueOk(j.Labels[l])

\* C27: validateAgent accepts a job whose agent is none of the four known
\* ones whatever its pod spec, decoration configuration, eviction flag and
\* namespace, so that Load never fails with the error of an agent rule when
\* all jobs are of unknown agents; the checks of the name, the concurrency
\* limit, the pod spec and the labels apply to such a job all the same: Load
\* returns it only when it passes them, and fails when it does not.
C27_UnknownAgentAccepted ==
    LET Unknown(j) == j.Agent \notin KnownAgents
        Accepted(j) ==
           Unknown(j) =>
              /\ validateAgent(j, Deref(c).PodNamespace) = NoErr
              /\ ~OtherChecksPass(j) => IsErr(validateJobBase(j, Deref(c).PodNamespace))
        Checked(j) == Unknown(j) => OtherChecksPass(j)
    IN /\ ~IsNil(c) => EveryJob(Deref(c), Accepted)
       /\ Returned /\ ~IsNil(c) /\ EveryJob(Deref(c), Unknown) =>
             ret.err.kind \notin AgentRuleErrors
       /\ Succeeded => EveryJob(Deref(ret.c), Checked)
       /\ Returned /\ fault = "none" /\ StageOf(at.phase) = "validateJobConfig" /\ ~IsNil(c)
          /\ ~EveryJob(Deref(c), Checked)
             => Failed

\* Load returned a job of an unknown agent that has no pod spec, a decoration
\* configuration, the eviction flag and a namespace of its own
C27_Witness ==
    /\ Succeeded
    /\ Len(Deref(ret.c).Periodics) = 1
    /\ LET j == Deref(ret.c).Periodics[1]
       IN /\ j.Agent = "mystery"
          /\ IsNil(j.Spec)
          /\ ~IsNil(j.DecorationConfig)
          /\ j.ErrorOnEviction
          /\ j.Namespace = Some("other")

\* Load failed on the labels of a job of an unknown agent
UnknownAgentLabelsChecked ==
    /\ Failed
    /\ ret.err.kind = "label has invalid value"
    /\ Len(Deref(c).Periodics) = 1
    /\ Deref(c).Periodics[1].Agent = "mystery"

\* a viewer is listed under two file patterns
ViewerUnderTwoPatterns ==
    LET m == prowDoc.Deck.Spyglass.Viewers
    IN \E p, q \in DOMAIN m :
          p # q /\ \E i \in 1..Len(m[p]) : \E j \in 1..Len(m[q]) : m[p][i] = m[q][j]

\* Load has succeeded twice on the same documents
LoadedTwice ==
    Succeeded /\ ~IsNil(prev) /\ ~IsNil(Deref(prev).c) /\ ~IsErr(Deref(prev).err)

\* C28 (as far as it holds): the lenses migrated from the viewers follow the
\* given lenses sorted by the name of the viewer, and two loads of the same
\* documents give the same list of lenses when no viewer is listed under two
\* file patterns.
C28_LensOrderStableForDistinctNames ==
    /\ Succeeded =>
          LET l == Deref(ret.c).Deck.Spyglass.Lenses
              n == Len(prowDoc.Deck.Spyglass.Lenses)
          IN /\ SubSeq(l, 1, n) = prowDoc.Deck.Spyglass.Lenses
             /\ \A i, j \in (n + 1)..Len(l) : i < j => ~TextLess(l[j].Lens.Name, l[i].Lens.Name)
    /\ LoadedTwice /\ ~ViewerUnderTwoPatterns =>
          Deref(ret.c).Deck.Spyglass.Lenses = Deref(Deref(prev).c).Deck.Spyglass.Lenses

\* two loads migrated viewers w and v of one pattern and viewer w of another
\* next to a given lens
C28_Witness ==
    /\ LoadedTwice
    /\ ~ViewerUnderTwoPatterns
    /\ Len(prowDoc.Deck.Spyglass.Lenses) = 1
    /\ Len(Deref(ret.c).Deck.Spyglass.Lenses) = 3
    /\ Deref(ret.c).Deck.Spyglass.Lenses[2].Lens.Name = Tv

\* C28 as stated: two loads of the same documents give the lenses in the
\* same order.  They need not when a viewer is listed under two file
\* patterns: the two lenses of that viewer come in the order in which the
\* range over the map met the patterns.
C28_LensOrderStable ==
    LoadedTwice =>
       Deref(ret.c).Deck.Spyglass.Lenses = Deref(Deref(prev).c).Deck.Spyglass.Lenses

\* C29: in a configuration Load returns, every job has an agent, a namespace
\* and a cluster that are not empty, and every presubmit and postsubmit a
\* context that is not empty; and Load never returns the error 'failed to
\* default namespace' nor the error 'set to report but has no context
\* configured'.
C29_DefaultedFieldsNonEmpty ==
    LET Based(j) ==
           /\ j.Agent # ""
           /\ ~IsNil(j.Namespace) /\ Deref(j.Namespace) # ""
           /\ j.Cluster # ""
        Reporting(j) == Len(j.Context) > 0
    IN /\ Succeeded =>
             LET cfg == Deref(ret.c)
             IN /\ EveryJob(cfg, Based)
                /\ \A repo \in DOMAIN cfg.Presubmits :
                      \A i \in 1..Len(cfg.Presubmits[repo]) : Reporting(cfg.Presubmits[repo][i])
                /\ \A repo \in DOMAIN cfg.Postsubmits :
                      \A i \in 1..Len(cfg.Postsubmits[repo]) : Reporting(cfg.Postsubmits[repo][i])
       /\ Returned =>
             ret.err.kind \notin {"failed to default namespace",
                                  "set to report but has no context configured"}

\* Load returned a presubmit that was given without an agent, with an empty
\* namespace, and without a cluster and a context
C29_Witness ==
    /\ Succeeded
    /\ Has(prowDoc.Presubmits, RepoOR)
    /\ Len(prowDoc.Presubmits[RepoOR]) = 1
    /\ LET g == prowDoc.Presubmits[RepoOR][1]
           j == Deref(ret.c).Presubmits[RepoOR][1]
       IN /\ g.Agent = "" /\ g.Namespace = Some("") /\ g.Cluster = "" /\ g.Context = <<>>
          /\ j.Agent = KubernetesAgent /\ j.Namespace = Some("default")
          /\ j.Cluster = "default" /\ j.Context = j.Name

\* Load failed on a presubmit without a name, and so without a context, with
\* the error of the name
NamelessRejectedForName ==
    /\ Failed
    /\ ret.err.kind = "name: must match regex"
    /\ Has(prowDoc.Presubmits, RepoOR)
    /\ Len(prowDoc.Presubmits[RepoOR]) = 1
    /\ prowDoc.Presubmits[RepoOR][1].Name = <<>>

====
